---- MODULE Spec2Model ----
(***************************************************************************)
(* A model of deanishe/go-env: the name deriver (VarName), the struct      *)
(* serialiser (Dump) and the struct populator (Bind).                      *)
(*                                                                         *)
(* Go strings are sequences of one-character strings, so that formatting,  *)
(* parsing and regular-expression matching are computed character by       *)
(* character.  Integers are sign + decimal digits, so that 64-bit values   *)
(* and the range checks of strconv are represented exactly.                *)
(***************************************************************************)
EXTENDS Integers, Sequences, FiniteSets, TLC

VARIABLES
    name,      \* VarName: the identifier last passed to VarName
    out,       \* VarName: the string VarName returned for it
    intSize,   \* width in bits of the platform's int and uint (32 or 64)
    tid,       \* index in Cases of the caller's struct type
    val,       \* the caller's struct: Dump reads it, Bind populates it
    op,        \* the last operation performed
    dumped,    \* the last Dump: its options, argument and result
    bound,     \* the last Bind: its source, the struct before it, its error
    heap,      \* linked structs: the Nodes a caller built, by address
    stack,     \* linked structs: the frames of the calls in progress
    got,       \* the last Reader.Get: its source, arguments and result
    environ    \* the variables of the process environment

vars == <<name, out, intSize, tid, val, op, dumped, bound, heap, stack, got, environ>>

----------------------------------------------------------------------------
(* Characters and strings                                                  *)

LowerSeq == <<"a","b","c","d","e","f","g","h","i","j","k","l","m",
              "n","o","p","q","r","s","t","u","v","w","x","y","z">>
UpperSeq == <<"A","B","C","D","E","F","G","H","I","J","K","L","M",
              "N","O","P","Q","R","S","T","U","V","W","X","Y","Z">>
DigitSeq == <<"0","1","2","3","4","5","6","7","8","9">>

Range(s) == {s[i] : i \in DOMAIN s}

Lower == Range(LowerSeq)
Upper == Range(UpperSeq)
Digit == Range(DigitSeq)
Chars == Lower \cup Upper \cup Digit \cup {"_", ",", ".", ":", "-", "+", "/", "@", " "}

\* strings.ToUpper / strings.ToLower on one ASCII character
ToUpperChar(c) ==
    IF c \in Lower THEN UpperSeq[CHOOSE i \in DOMAIN LowerSeq : LowerSeq[i] = c]
    ELSE c
ToUpper(s) == [i \in DOMAIN s |-> ToUpperChar(s[i])]
ToLower(s) ==
    [i \in DOMAIN s |->
        IF s[i] \in Upper THEN LowerSeq[CHOOSE j \in DOMAIN UpperSeq : UpperSeq[j] = s[i]]
        ELSE s[i]]

\* s[from:] in Go, with 1-based from
Tail2(s, from) == SubSeq(s, from, Len(s))

\* strings.Join(words, sep)
RECURSIVE Join(_, _)
Join(words, sep) ==
    IF Len(words) = 0 THEN <<>>
    ELSE IF Len(words) = 1 THEN words[1]
    ELSE words[1] \o sep \o Join(Tail(words), sep)

\* index of the first occurrence of character c in s at or after i, 0 if none
RECURSIVE IndexFrom(_, _, _)
IndexFrom(s, c, i) ==
    IF i > Len(s) THEN 0
    ELSE IF s[i] = c THEN i
    ELSE IndexFrom(s, c, i + 1)

\* strings.Split(s, sep) for a one-character separator: always at least
\* one part, the empty string included
RECURSIVE Split(_, _)
Split(s, c) ==
    LET cut(i) == IF i = 0 THEN <<s>>
                  ELSE <<SubSeq(s, 1, i - 1)>> \o Split(Tail2(s, i + 1), c)
    IN cut(IndexFrom(s, c, 1))

----------------------------------------------------------------------------
(* Regular expressions of package regexp, as far as VarName uses them: a   *)
(* pattern is a sequence of elements, each a character class with a        *)
(* quantifier (one, greedy plus, greedy star) and possibly opening the     *)
(* capture group.  Matching is leftmost-first with backtracking.           *)

El(cls, q, cap) == [cls |-> cls, q |-> q, cap |-> cap]



\* number of consecutive characters of s from position i that are in cls
RECURSIVE RunLen(_, _, _)
RunLen(cls, s, i) ==
    IF i > Len(s) \/ s[i] \notin cls THEN 0
    ELSE 1 + RunLen(cls, s, i + 1)

RECURSIVE MatchFrom(_, _, _, _, _)
RECURSIVE TryRep(_, _, _, _, _, _, _)
\* match elements pi.. of pat against s from position si
MatchFrom(pat, s, pi, si, cap) ==
    IF pi > Len(pat) THEN [ok |-> TRUE, cap |-> cap, end |-> si]
    ELSE LET step(e, cap2) ==
               IF e.q = "one"
               THEN IF si <= Len(s) /\ s[si] \in e.cls
                    THEN MatchFrom(pat, s, pi + 1, si + 1, cap2)
                    ELSE [ok |-> FALSE, cap |-> 0, end |-> 0]
               ELSE TryRep(pat, s, pi, si, cap2, RunLen(e.cls, s, si),
                           IF e.q = "plus" THEN 1 ELSE 0)
         IN step(pat[pi], IF pat[pi].cap THEN si ELSE cap)
\* greedy repetition: the longest run first, then shorter ones
TryRep(pat, s, pi, si, cap, k, min) ==
    IF k < min THEN [ok |-> FALSE, cap |-> 0, end |-> 0]
    ELSE LET orShorter(r) ==
               IF r.ok THEN r ELSE TryRep(pat, s, pi, si, cap, k - 1, min)
         IN orShorter(MatchFrom(pat, s, pi + 1, si + k, cap))

\* the leftmost match starting at or after position start
RECURSIVE FindFrom(_, _, _)
FindFrom(pat, s, start) ==
    IF start > Len(s) + 1 THEN [ok |-> FALSE, cap |-> 0, end |-> 0]
    ELSE LET orLater(r) == IF r.ok THEN r ELSE FindFrom(pat, s, start + 1)
         IN orLater(MatchFrom(pat, s, 1, start, 0))

\* regexp.MatchString(pat, s)
MatchString(pat, s) == FindFrom(pat, s, 1).ok

\* re.FindStringSubmatchIndex(s): .ok is idx != nil, .cap is idx[2] + 1
FindStringSubmatchIndex(pat, s) == FindFrom(pat, s, 1)

----------------------------------------------------------------------------
(* VarName                                                                 *)

\* "[A-Z]+([A-Z])[0-9]*[a-z]"
ReSplitCaps ==
    << El(Upper, "plus", FALSE), El(Upper, "one", TRUE), El(Digit, "star", FALSE),
       El(Lower, "one", FALSE) >>
\* "[a-z]([0-9_]*)[A-Z]": the capture group around the digits
ReSplitLowerAtDigits ==
    << El(Lower, "one", FALSE), El((Digit \cup {"_"}), "star", TRUE), El(Upper, "one", FALSE) >>
\* "[a-z][0-9_]*([A-Z])"
ReSplitLower ==
    << El(Lower, "one", FALSE), El((Digit \cup {"_"}), "star", FALSE), El(Upper, "one", TRUE) >>

\* the two patterns are ".*[a-z]+[0-9_]*[A-Z]+.*" and
\* "[A-Z][A-Z][A-Z]+[0-9_]*[a-z]+.*"
isCamelCase(s) ==
    IF MatchString(<< El(Chars, "star", FALSE), El(Lower, "plus", FALSE),
                      El((Digit \cup {"_"}), "star", FALSE), El(Upper, "plus", FALSE),
                      El(Chars, "star", FALSE) >>, s) THEN TRUE
    ELSE IF MatchString(<< El(Upper, "one", FALSE), El(Upper, "one", FALSE),
                           El(Upper, "plus", FALSE), El((Digit \cup {"_"}), "star", FALSE),
                           El(Lower, "plus", FALSE), El(Chars, "star", FALSE) >>, s) THEN TRUE
    ELSE FALSE

\* one of the two "for { ... }" loops of splitCamelCase: cut rest before the
\* capture group for as long as re matches
\* splitLoop with "rest = rest[i+1:]": the character of the capture group
\* is lost.  C30 must reject it.
RECURSIVE splitLoopDropsChar(_, _, _)
splitLoopDropsChar(re, rest, words) ==
    LET cut(idx) ==
          IF idx.ok
          THEN splitLoopDropsChar(re, Tail2(rest, idx.cap + 1),
                                  Append(words, SubSeq(rest, 1, idx.cap - 1)))
          ELSE [rest |-> rest, words |-> words]
    IN cut(FindStringSubmatchIndex(re, rest))
RECURSIVE splitLoop(_, _, _)
splitLoop(re, rest, words) ==
    LET cut(idx) ==
          IF idx.ok
          THEN splitLoop(re, Tail2(rest, idx.cap),
                         Append(words, SubSeq(rest, 1, idx.cap - 1)))
          ELSE [rest |-> rest, words |-> words]
    IN cut(FindStringSubmatchIndex(re, rest))

\* splitCamelCase that joins the words without strings.ToUpper.  C29 must
\* reject it.
splitCamelCaseAsIs(s) ==
    LET joined(words) ==
          IF Len(words) > 0 THEN Join(words, <<"_">>) ELSE <<>>
        last(b)  == joined(IF b.rest # <<>> THEN Append(b.words, b.rest) ELSE b.words)
        lower(a) == last(splitLoop(ReSplitLower, a.rest, a.words))
    IN lower(splitLoop(ReSplitCaps, s, <<>>))
splitCamelCase(s) ==
    LET joined(words) ==
          IF Len(words) > 0 THEN ToUpper(Join(words, <<"_">>)) ELSE <<>>
        last(b)  == joined(IF b.rest # <<>> THEN Append(b.words, b.rest) ELSE b.words)
        lower(a) == last(splitLoop(ReSplitLower, a.rest, a.words))
    IN lower(splitLoop(ReSplitCaps, s, <<>>))

VarName(s) ==
    IF ~isCamelCase(s) THEN ToUpper(s) ELSE splitCamelCase(s)

----------------------------------------------------------------------------
(* Numbers.  An integer is [neg, mag]: a sign and its magnitude in decimal *)
(* digits without leading zeros.  A float is [neg, ip, fp]: sign, integer  *)
(* digits and fraction digits of its shortest decimal form.                *)

DigitVal(c) == (CHOOSE i \in DOMAIN DigitSeq : DigitSeq[i] = c) - 1

IsDigits(s) == Len(s) > 0 /\ \A i \in DOMAIN s : s[i] \in Digit

\* drop leading zeros, keeping one digit
RECURSIVE StripZeros(_)
StripZeros(d) ==
    IF Len(d) > 1 /\ d[1] = "0" THEN StripZeros(Tail(d)) ELSE d

\* a <= b for magnitudes without leading zeros
RECURSIVE LexLeq(_, _)
LexLeq(a, b) ==
    IF Len(a) = 0 THEN TRUE
    ELSE IF a[1] # b[1] THEN DigitVal(a[1]) < DigitVal(b[1])
    ELSE LexLeq(Tail(a), Tail(b))
MagLeq(a, b) ==
    Len(a) < Len(b) \/ (Len(a) = Len(b) /\ LexLeq(a, b))

MkInt(neg, mag) == [neg |-> neg, mag |-> mag]
IntZero == MkInt(FALSE, <<"0">>)

\* 2^(bitSize-1) and 2^bitSize - 1
Pow2Minus1(bitSize) ==
    CASE bitSize = 8  -> <<"1","2","8">>
      [] bitSize = 16 -> <<"3","2","7","6","8">>
      [] bitSize = 32 -> <<"2","1","4","7","4","8","3","6","4","8">>
      [] bitSize = 64 -> <<"9","2","2","3","3","7","2","0","3","6","8","5","4","7","7","5","8","0","8">>

\* whether v fits a signed / unsigned integer of bitSize bits
FitsInt(v, bitSize) ==
    IF v.neg THEN MagLeq(v.mag, Pow2Minus1(bitSize))
    ELSE v.mag # Pow2Minus1(bitSize) /\ MagLeq(v.mag, Pow2Minus1(bitSize))
FitsUint(v, bitSize) ==
    /\ ~v.neg
    /\ MagLeq(v.mag,
              CASE bitSize = 8  -> <<"2","5","5">>
                [] bitSize = 16 -> <<"6","5","5","3","5">>
                [] bitSize = 32 -> <<"4","2","9","4","9","6","7","2","9","5">>
                [] bitSize = 64 -> <<"1","8","4","4","6","7","4","4","0","7","3","7","0","9","5","5","1","6","1","5">>)

Parsed(v)   == [ok |-> TRUE, v |-> v, why |-> "nil"]
ParseErr(w) == [ok |-> FALSE, v |-> <<>>, why |-> w]

\* strconv.FormatInt(v, 10) and strconv.FormatUint(v, 10)
FormatInt(v)  == IF v.neg THEN <<"-">> \o v.mag ELSE v.mag
FormatUint(v) == v.mag

\* strconv.ParseInt(s, 10, bitSize): optional sign, decimal digits, in range
ParseInt(s, bitSize) ==
    LET check(body, v) ==
          IF ~IsDigits(body) THEN ParseErr("invalid syntax")
          ELSE IF ~FitsInt(v, bitSize) THEN ParseErr("value out of range")
          ELSE Parsed(v)
        digits(neg, body, mag) == check(body, MkInt(neg /\ mag # <<"0">>, mag))
        signed(neg, body) == digits(neg, body, StripZeros(body))
    IN signed(Len(s) > 0 /\ s[1] = "-",
              IF Len(s) > 0 /\ s[1] \in {"+", "-"} THEN Tail(s) ELSE s)

\* strconv.ParseUint(s, 10, bitSize): decimal digits only, no sign
ParseUint(s, bitSize) ==
    LET check(v) ==
          IF ~IsDigits(s) THEN ParseErr("invalid syntax")
          ELSE IF ~FitsUint(v, bitSize) THEN ParseErr("value out of range")
          ELSE Parsed(v)
    IN check(MkInt(FALSE, StripZeros(s)))

\* strconv.FormatBool and strconv.ParseBool
FormatBool(b) == IF b THEN <<"t","r","u","e">> ELSE <<"f","a","l","s","e">>
ParseBool(s) ==
    IF s \in { <<"1">>, <<"t">>, <<"T">>, <<"T","R","U","E">>,
               <<"t","r","u","e">>, <<"T","r","u","e">> }
    THEN Parsed(TRUE)
    ELSE IF s \in { <<"0">>, <<"f">>, <<"F">>, <<"F","A","L","S","E">>,
                    <<"f","a","l","s","e">>, <<"F","a","l","s","e">> }
    THEN Parsed(FALSE)
    ELSE ParseErr("invalid syntax")

MkFloat(neg, ip, fp) == [neg |-> neg, ip |-> ip, fp |-> fp]
FloatZero == MkFloat(FALSE, <<"0">>, <<>>)

\* drop trailing zeros of a fraction
RECURSIVE StripTrailing(_)
StripTrailing(d) ==
    IF Len(d) > 0 /\ d[Len(d)] = "0" THEN StripTrailing(SubSeq(d, 1, Len(d) - 1))
    ELSE d

\* strconv.FormatFloat(v, 'f', -1, bitSize): the shortest decimal form
FormatFloat(v) ==
    (IF v.neg THEN <<"-">> ELSE <<>>) \o v.ip
        \o (IF v.fp = <<>> THEN <<>> ELSE <<".">> \o v.fp)

\* strconv.ParseFloat(s, bitSize) on plain decimal text (sign, digits, an
\* optional point and fraction); exponents, hex, inf and nan are not in
\* the model's inputs
ParseFloat(s) ==
    LET parts(neg, ipart, fpart) ==
          IF /\ \A i \in DOMAIN ipart : ipart[i] \in Digit
             /\ \A i \in DOMAIN fpart : fpart[i] \in Digit
             /\ Len(ipart) + Len(fpart) > 0
          THEN Parsed(MkFloat(neg, IF ipart = <<>> THEN <<"0">> ELSE StripZeros(ipart),
                              StripTrailing(fpart)))
          ELSE ParseErr("invalid syntax")
        cut(neg, body, dot) ==
          parts(neg, IF dot = 0 THEN body ELSE SubSeq(body, 1, dot - 1),
                IF dot = 0 THEN <<>> ELSE Tail2(body, dot + 1))
        signed(neg, body) == cut(neg, body, IndexFrom(body, ".", 1))
    IN signed(Len(s) > 0 /\ s[1] = "-",
              IF Len(s) > 0 /\ s[1] \in {"+", "-"} THEN Tail(s) ELSE s)

----------------------------------------------------------------------------
(* time.Duration, in whole seconds (the model's durations have no          *)
(* sub-second part): an integer [neg, mag] as above.                       *)

RECURSIVE MagToNat(_)
MagToNat(d) ==
    IF Len(d) = 0 THEN 0
    ELSE 10 * MagToNat(SubSeq(d, 1, Len(d) - 1)) + DigitVal(d[Len(d)])

RECURSIVE NatToMag(_)
NatToMag(n) ==
    IF n < 10 THEN <<DigitSeq[n + 1]>>
    ELSE NatToMag(n \div 10) \o <<DigitSeq[(n % 10) + 1]>>

\* Duration.String(): "0s", "5s", "1m0s", "1h0m5s"
DurationString(d) ==
    LET text(h, m, s) ==
          (IF d.neg THEN <<"-">> ELSE <<>>)
            \o (IF h > 0 THEN NatToMag(h) \o <<"h">> ELSE <<>>)
            \o (IF h > 0 \/ m > 0 THEN NatToMag(m) \o <<"m">> ELSE <<>>)
            \o NatToMag(s) \o <<"s">>
        hms(n) == text(n \div 3600, (n % 3600) \div 60, n % 60)
    IN hms(MagToNat(d.mag))

\* the "number unit" pairs of time.ParseDuration, summed in seconds;
\* -1 when the text is malformed (no digits, missing or unknown unit)
RECURSIVE DurationPairs(_)
DurationPairs(s) ==
    IF Len(s) = 0 THEN 0
    ELSE LET mult(u) == CASE u = <<"h">> -> 3600
                          [] u = <<"m">> -> 60
                          [] u = <<"s">> -> 1
                          [] OTHER -> 0
             sum(n, rest) == IF rest < 0 THEN -1 ELSE n + rest
             pair(nd, nu, m) ==
               IF nd = 0 \/ m = 0 THEN -1
               ELSE sum(MagToNat(SubSeq(s, 1, nd)) * m,
                        DurationPairs(Tail2(s, nd + nu + 1)))
             unit(nd, nu) == pair(nd, nu, mult(SubSeq(s, nd + 1, nd + nu)))
             digits(nd) == unit(nd, RunLen(Lower, s, nd + 1))
         IN digits(RunLen(Digit, s, 1))

\* time.ParseDuration(s)
ParseDuration(s) ==
    LET made(neg, n) ==
          IF n < 0 THEN ParseErr("invalid duration")
          ELSE Parsed(MkInt(neg /\ n > 0, NatToMag(n)))
        signed(neg, body) ==
          made(neg, IF body = <<"0">> THEN 0
                    ELSE IF body = <<>> THEN -1
                    ELSE DurationPairs(body))
    IN signed(Len(s) > 0 /\ s[1] = "-",
              IF Len(s) > 0 /\ s[1] \in {"+", "-"} THEN Tail(s) ELSE s)


----------------------------------------------------------------------------
(* Types, as package reflect presents them: k is the Kind, tname the       *)
(* Name() ("" for unnamed types), str the String(), elem the element type  *)
(* of a pointer or slice (a 1-tuple), fields the fields of a struct.       *)

Ty(k, tname, str, elem, fields) ==
    [k |-> k, tname |-> tname, str |-> str, elem |-> elem, fields |-> fields]

Basic(k)   == Ty(k, k, k, <<>>, <<>>)
PtrTo(t)   == Ty("ptr", "", "*", <<t>>, <<>>)
SliceOf(t) == Ty("slice", "", "[]", <<t>>, <<>>)
Elem(t)    == t.elem[1]

\* a struct field: its name, the value of its env tag ("" when it has
\* none) and its type
Field(fname, tag, type) == [name |-> fname, tag |-> tag, type |-> type]
StructT(tname, str, fields) == Ty("struct", tname, str, <<>>, fields)

IntKinds   == {"int", "int8", "int16", "int32", "int64"}
UintKinds  == {"uint", "uint8", "uint16", "uint32", "uint64"}
FloatKinds == {"float32", "float64"}


\* map[string]string
TMap == Ty("map", "", "map[string]string", <<>>, <<>>)

\* time.Duration: a named int64 with a String method
TDuration == Ty("int64", "Duration", "time.Duration", <<>>, <<>>)

\* url.Userinfo: unexported fields only; *Userinfo has a String method
TUserinfo ==
    StructT("Userinfo", "url.Userinfo",
            << Field(<<"u","s","e","r","n","a","m","e">>, <<>>, Basic("string")) >>)

\* url.URL: a struct of exported fields; *URL has a String method
TURL ==
    StructT("URL", "url.URL",
            << Field(<<"S","c","h","e","m","e">>, <<>>, Basic("string")),
               Field(<<"U","s","e","r">>, <<>>, PtrTo(TUserinfo)),
               Field(<<"H","o","s","t">>, <<>>, Basic("string")),
               Field(<<"P","a","t","h">>, <<>>, Basic("string")) >>)

\* time.Time: unexported fields only; Time has MarshalText, *Time has
\* UnmarshalText
TTime ==
    StructT("Time", "time.Time",
            << Field(<<"w","a","l","l">>, <<>>, Basic("uint64")) >>)

\* badMarshaller: a named string whose MarshalText and UnmarshalText (both
\* on the value) always fail
TBadM == Ty("string", "badMarshaller", "env.badMarshaller", <<>>, <<>>)

IsPtrTo(t, u) == t.k = "ptr" /\ Elem(t) = u

\* rv = rv.Elem() for a pointer: the type pointed to, the type itself
\* when it is no pointer
Indirect(t) == IF t.k = "ptr" THEN Elem(t) ELSE t

\* the method sets: whether a value of type t is an encoding.TextMarshaler,
\* a fmt.Stringer, an encoding.TextUnmarshaler
ImplementsTextMarshaler(t) ==
    t \in {TTime, TBadM} \/ IsPtrTo(t, TTime) \/ IsPtrTo(t, TBadM)
ImplementsStringer(t) ==
    \/ t \in {TDuration, TTime}
    \/ IsPtrTo(t, TDuration) \/ IsPtrTo(t, TTime)
    \/ IsPtrTo(t, TURL) \/ IsPtrTo(t, TUserinfo)
ImplementsTextUnmarshaler(t) ==
    t = TBadM \/ IsPtrTo(t, TBadM) \/ IsPtrTo(t, TTime)

----------------------------------------------------------------------------
(* Values.  bool: a BOOLEAN; string: characters; integers and durations:   *)
(* [neg, mag]; floats: [neg, ip, fp]; pointer: <<>> when nil, else <<v>>   *)
(* with v the pointee; slice and map: [isnil, elems]; struct: the tuple    *)
(* of its fields' values, in declaration order.                            *)

NilPtr      == <<>>
Ref(v)      == <<v>>
Deref(p)    == p[1]
SliceV(es)  == [isnil |-> FALSE, elems |-> es]

\* rv = rv.Elem() for a non-nil pointer v of type t: the pointee, v itself
\* when t is no pointer
IndirectV(t, v) == IF t.k = "ptr" THEN Deref(v) ELSE v

\* reflect.Zero(t)
RECURSIVE ZeroOf(_)
ZeroOf(t) ==
    CASE t.k = "bool"   -> FALSE
      [] t.k = "string" -> <<>>
      [] t.k \in IntKinds \cup UintKinds -> IntZero
      [] t.k \in FloatKinds -> FloatZero
      [] t.k = "ptr"    -> NilPtr
      [] t.k = "slice"  -> [isnil |-> TRUE, elems |-> <<>>]
      [] t.k = "map"    -> [isnil |-> TRUE, elems |-> <<>>]
      [] t.k = "struct" -> [i \in DOMAIN t.fields |-> ZeroOf(t.fields[i].type)]


----------------------------------------------------------------------------
(* Errors: kind names the error value, text is what distinguishes two      *)
(* errors of one kind (the type an ErrUnsupported names).                  *)

Err(kind, text)   == [kind |-> kind, text |-> text]
Nil               == Err("nil", "")
ErrNotStruct      == Err("ErrNotStruct", "not a struct")
ErrNotStructPtr   == Err("ErrNotStructPtr", "not a pointer to a struct")
ErrUnsupported(t) == Err("ErrUnsupported", t)
unknownType       == Err("unknownType", "unknown type")
ErrOops           == Err("error", "oops")
ErrParse(why)     == Err("error", why)
\* a run-time panic (nil dereference, failed type assertion)
Panic(text)       == Err("panic", text)

----------------------------------------------------------------------------
(* The library methods Dump and Bind reach through interfaces              *)

\* (*url.URL).String(): scheme://user@host/path
URLString(u) ==
    LET text(scheme, user, host, path) ==
          (IF scheme # <<>> THEN scheme \o <<":">> ELSE <<>>)
            \o (IF scheme # <<>> \/ host # <<>> \/ user # NilPtr
                THEN (IF host # <<>> \/ path # <<>> \/ user # NilPtr
                      THEN <<"/","/">> ELSE <<>>)
                       \o (IF user # NilPtr THEN Deref(user)[1] \o <<"@">> ELSE <<>>)
                       \o host
                ELSE <<>>)
            \o (IF path # <<>> /\ path[1] # "/" /\ host # <<>> THEN <<"/">> ELSE <<>>)
            \o path
    IN text(u[1], u[2], u[3], u[4])

\* the end of the scheme of a URL: the index of its ':', 0 when the text
\* has no scheme, -1 when it starts with ':' (missing protocol scheme)
RECURSIVE GetScheme(_, _)
GetScheme(s, i) ==
    IF i > Len(s) THEN 0
    ELSE IF s[i] \in Lower \cup Upper THEN GetScheme(s, i + 1)
    ELSE IF s[i] \in Digit \cup {"+", "-", "."}
         THEN IF i = 1 THEN 0 ELSE GetScheme(s, i + 1)
    ELSE IF s[i] = ":" THEN IF i = 1 THEN -1 ELSE i
    ELSE 0

\* index of the last occurrence of c in s, 0 if none
RECURSIVE LastIndex(_, _)
LastIndex(s, c) ==
    IF Len(s) = 0 THEN 0
    ELSE IF s[Len(s)] = c THEN Len(s)
    ELSE LastIndex(SubSeq(s, 1, Len(s) - 1), c)

\* url.Parse(s), for URLs of the form [scheme:][//[user@]host][path]
URLParse(s) ==
    LET made(scheme, auth, path, at) ==
          Parsed(<< scheme,
                    IF at = 0 THEN NilPtr ELSE Ref(<<SubSeq(auth, 1, at - 1)>>),
                    IF at = 0 THEN auth ELSE Tail2(auth, at + 1),
                    path >>)
        authority(scheme, auth, path) == made(scheme, auth, path, LastIndex(auth, "@"))
        slashed(scheme, after, slash) ==
          authority(scheme,
                    IF slash = 0 THEN after ELSE SubSeq(after, 1, slash - 1),
                    IF slash = 0 THEN <<>> ELSE Tail2(after, slash))
        rested(scheme, rest) ==
          IF Len(rest) >= 2 /\ rest[1] = "/" /\ rest[2] = "/"
          THEN slashed(scheme, Tail2(rest, 3), IndexFrom(Tail2(rest, 3), "/", 1))
          ELSE made(scheme, <<>>, rest, 0)
        schemed(colon) ==
          IF colon < 0 THEN ParseErr("missing protocol scheme")
          ELSE rested(IF colon > 0 THEN ToLower(SubSeq(s, 1, colon - 1)) ELSE <<>>,
                      IF colon > 0 THEN Tail2(s, colon + 1) ELSE s)
    IN schemed(GetScheme(s, 1))

\* Time.MarshalText and (*Time).UnmarshalText: the text of an instant is
\* "T" and its digits
TimeMarshalText(tv) == <<"T">> \o tv[1].mag
TimeUnmarshalText(s) ==
    IF Len(s) >= 2 /\ s[1] = "T" /\ IsDigits(Tail(s)) /\ StripZeros(Tail(s)) = Tail(s)
    THEN Parsed(<<MkInt(FALSE, Tail(s))>>)
    ELSE ParseErr("cannot parse time")

\* tm.MarshalText() for a value v of a type t that has the method
MarshalText(t, v) ==
    IF t.k = "ptr" /\ v = NilPtr THEN [s |-> <<>>, err |-> Panic("nil pointer dereference")]
    ELSE IF Indirect(t) = TBadM THEN [s |-> <<>>, err |-> ErrOops]
    ELSE [s |-> TimeMarshalText(IndirectV(t, v)), err |-> Nil]

\* s.String() for a value v of a type t that has the method
String(t, v) ==
    IF t.k = "ptr" /\ v = NilPtr
    THEN IF Elem(t) = TUserinfo THEN [s |-> <<>>, err |-> Nil]
         ELSE [s |-> <<>>, err |-> Panic("nil pointer dereference")]
    ELSE LET on(u, x) ==
               CASE u = TDuration -> [s |-> DurationString(x), err |-> Nil]
                 [] u = TURL      -> [s |-> URLString(x), err |-> Nil]
                 [] u = TUserinfo -> [s |-> x[1], err |-> Nil]
                 [] u = TTime     -> [s |-> TimeMarshalText(x), err |-> Nil]
         IN on(Indirect(t), IndirectV(t, v))

----------------------------------------------------------------------------
(* Dump                                                                    *)

EmptyMap == <<>>
Put(m, k, v) == [x \in DOMAIN m \cup {k} |-> IF x = k THEN v ELSE m[x]]
\* Merge with the loop's assignment guarded by "if _, ok := m1[k]; !ok":
\* an entry already present is kept.  C10 must reject it.
MergeKeepsFirst(m1, m2) ==
    [x \in DOMAIN m1 \cup DOMAIN m2 |-> IF x \in DOMAIN m1 THEN m1[x] ELSE m2[x]]
\* for k, v := range m2 { m1[k] = v }
Merge(m1, m2) ==
    [x \in DOMAIN m1 \cup DOMAIN m2 |-> IF x \in DOMAIN m2 THEN m2[x] ELSE m1[x]]
Has(m, k) == k \in DOMAIN m

\* the name function of TestVarNameFunc: VarName, lower-cased, "_" to "-"
LowerDash(s) ==
    LET dashed(l) == [i \in DOMAIN l |-> IF l[i] = "_" THEN "-" ELSE l[i]]
    IN dashed(ToLower(VarName(s)))

\* a dumper d: noZero and the name of its nameFunc
nameFunc(d, s) == IF d.nameFunc = "VarName" THEN VarName(s) ELSE LowerDash(s)

RECURSIVE isZero(_, _)
isZero(t, v) ==
    CASE t.k = "bool"   -> ~v
      [] t.k \in IntKinds \cup UintKinds -> v.mag = <<"0">>
      [] t.k \in FloatKinds -> v = FloatZero
      [] t.k \in {"ptr"} -> v = NilPtr
      [] t.k \in {"slice", "map"} -> v.isnil
      [] t.k = "string" -> Len(v) = 0
      [] t.k = "struct" -> \A i \in DOMAIN t.fields : isZero(t.fields[i].type, v[i])

toString(t, v) ==
    IF ImplementsTextMarshaler(t) THEN MarshalText(t, v)
    ELSE IF ImplementsStringer(t) THEN String(t, v)
    ELSE IF t.k = "ptr" /\ v = NilPtr THEN [s |-> <<>>, err |-> unknownType]
    ELSE LET on(u, x) ==
               CASE u.k = "string" -> [s |-> x, err |-> Nil]
                 [] u.k = "bool"   -> [s |-> FormatBool(x), err |-> Nil]
                 [] u.k \in IntKinds   -> [s |-> FormatInt(x), err |-> Nil]
                 [] u.k \in UintKinds  -> [s |-> FormatUint(x), err |-> Nil]
                 [] u.k \in FloatKinds -> [s |-> FormatFloat(x), err |-> Nil]
                 [] OTHER -> [s |-> <<>>, err |-> unknownType]
         IN on(Indirect(t), IndirectV(t, v))

\* the loop of dumpSlice from element i on, values being the strings so far
RECURSIVE dumpSliceFrom(_, _, _, _)
dumpSliceFrom(t, v, i, values) ==
    IF i > Len(v.elems) THEN [s |-> Join(values, <<",">>), err |-> Nil]
    ELSE LET after(r) ==
               IF r.err # Nil /\ r.err # unknownType THEN [s |-> <<>>, err |-> r.err]
               ELSE dumpSliceFrom(t, v, i + 1, Append(values, r.s))
         IN after(toString(Elem(t), v.elems[i]))

dumpSlice(t, v) == dumpSliceFrom(t, v, 1, <<>>)

\* "skip unexported fields": the first character equals its lower case
DumpSkipsName(fname) == <<fname[1]>> = ToLower(<<fname[1]>>)

DumpFail(e) == [vars |-> EmptyMap, err |-> e]
DumpOk(m)   == [vars |-> m, err |-> Nil]

RECURSIVE dump(_, _, _)
RECURSIVE dumpFields(_, _, _, _, _)
\* dumpField with a bare "continue" for a nil pointer: no entry is written
\* for it.  C24 must reject it.
dumpFieldNilSkipped(d, field, fv, acc) ==
    LET keyed(ft, key) ==
          IF d.noZero /\ isZero(ft, fv) THEN DumpOk(acc)
          ELSE IF DumpSkipsName(field.name) \/ field.tag = <<"-">> THEN DumpOk(acc)
          ELSE IF ft.k = "ptr" /\ fv = NilPtr THEN DumpOk(acc)
          ELSE IF ft.k = "slice"
          THEN LET joined(r) ==
                     IF r.err # Nil THEN DumpFail(r.err)
                     ELSE IF r.s = <<>> /\ d.noZero THEN DumpOk(acc)
                     ELSE DumpOk(Put(acc, key, r.s))
               IN joined(dumpSlice(ft, fv))
          ELSE LET merged(m) ==
                     IF m.err # Nil THEN DumpFail(m.err)
                     ELSE DumpOk(Merge(acc, m.vars))
                   converted(r) ==
                     IF r.err # Nil /\ r.err # unknownType THEN DumpFail(r.err)
                     ELSE IF r.err # unknownType THEN DumpOk(Put(acc, key, r.s))
                     ELSE IF Indirect(ft).k = "struct"
                     THEN merged(dump(d, Indirect(ft), IndirectV(ft, fv)))
                     ELSE DumpOk(acc)
               IN converted(toString(ft, fv))
    IN keyed(field.type,
             IF field.tag = <<>> THEN nameFunc(d, field.name) ELSE field.tag)
\* the body of the loop of dumper.dump for one field with value fv: the
\* variables so far with what the field adds, and the error
dumpField(d, field, fv, acc) ==
    LET keyed(ft, key) ==
          IF d.noZero /\ isZero(ft, fv) THEN DumpOk(acc)
          ELSE IF DumpSkipsName(field.name) \/ field.tag = <<"-">> THEN DumpOk(acc)
          ELSE IF ft.k = "ptr" /\ fv = NilPtr THEN DumpOk(Put(acc, key, <<>>))
          ELSE IF ft.k = "slice"
          THEN LET joined(r) ==
                     IF r.err # Nil THEN DumpFail(r.err)
                     ELSE IF r.s = <<>> /\ d.noZero THEN DumpOk(acc)
                     ELSE DumpOk(Put(acc, key, r.s))
               IN joined(dumpSlice(ft, fv))
          ELSE LET merged(m) ==
                     IF m.err # Nil THEN DumpFail(m.err)
                     ELSE DumpOk(Merge(acc, m.vars))
                   converted(r) ==
                     IF r.err # Nil /\ r.err # unknownType THEN DumpFail(r.err)
                     ELSE IF r.err # unknownType THEN DumpOk(Put(acc, key, r.s))
                     ELSE IF Indirect(ft).k = "struct"
                     THEN merged(dump(d, Indirect(ft), IndirectV(ft, fv)))
                     ELSE DumpOk(acc)
               IN converted(toString(ft, fv))
    IN keyed(field.type,
             IF field.tag = <<>> THEN nameFunc(d, field.name) ELSE field.tag)

\* the loop of dumper.dump over the fields of struct v from field i on
dumpFields(d, t, v, i, acc) ==
    IF i > Len(t.fields) THEN DumpOk(acc)
    ELSE LET after(r) ==
               IF r.err # Nil THEN DumpFail(r.err)
               ELSE dumpFields(d, t, v, i + 1, r.vars)
         IN after(dumpField(d, t.fields[i], v[i], acc))

\* dumper.dump without "if rv.Kind() == reflect.Ptr { rv = rv.Elem() }": a
\* pointer to a struct is no struct.  C13 must reject it.
dumpNoElem(d, t, v) ==
    IF t.k # "struct" THEN DumpFail(ErrNotStruct)
    ELSE dumpFields(d, t, v, 1, EmptyMap)

\* dumper.dump(v) for an argument v of type t
dump(d, t, v) ==
    IF t.k = "ptr" /\ v = NilPtr THEN DumpFail(ErrNotStruct)
    ELSE IF Indirect(t).k # "struct" THEN DumpFail(ErrNotStruct)
    ELSE dumpFields(d, Indirect(t), IndirectV(t, v), 1, EmptyMap)

\* Dump(v, opt...): the options set the dumper's fields
Dump(t, v, noZero, fn) == dump([noZero |-> noZero, nameFunc |-> fn], t, v)

\* Export that leaves a variable the environment already holds as it is.
\* C22 must reject it.
ExportKeepsExisting(env, t, v, noZero, fn) ==
    LET setenv(r) ==
          IF r.err # Nil THEN {[environ |-> env, err |-> r.err]}
          ELSE {[environ |-> Merge(r.vars, env), err |-> Nil]}
    IN setenv(Dump(t, v, noZero, fn))
\* Export(v, opts...) in environment env: what the environment and the
\* error can be after it.  os.Setenv fails for an empty key and a key with
\* '='; the map is ranged over in any order, so the variables set before a
\* failing Setenv are any of the others.
Export(env, t, v, noZero, fn) ==
    LET invalid(m) == {k \in DOMAIN m : k = <<>> \/ "=" \in Range(k)}
        setenv(r) ==
          IF r.err # Nil THEN {[environ |-> env, err |-> r.err]}
          ELSE IF invalid(r.vars) = {}
          THEN {[environ |-> Merge(env, r.vars), err |-> Nil]}
          ELSE {[environ |-> Merge(env, [k \in S |-> r.vars[k]]),
                 err |-> Err("EINVAL", "setenv: invalid argument")] :
                   S \in SUBSET (DOMAIN r.vars \ invalid(r.vars))}
    IN setenv(Dump(t, v, noZero, fn))


----------------------------------------------------------------------------
(* Bind                                                                    *)

\* MapEnv.Lookup(key) as populate uses it: the value, "" when unset
Lookup(env, key) == IF Has(env, key) THEN env[key] ELSE <<>>


\* kindParsers[kind](s)
kindParsers(kind, s) ==
    CASE kind = "bool"    -> ParseBool(s)
      [] kind = "string"  -> Parsed(s)
      [] kind = "int"     -> ParseInt(s, 32)
      [] kind = "int8"    -> ParseInt(s, 8)
      [] kind = "int16"   -> ParseInt(s, 16)
      [] kind = "int32"   -> ParseInt(s, 32)
      [] kind = "int64"   -> ParseInt(s, 64)
      [] kind = "uint"    -> ParseUint(s, 32)
      [] kind = "uint8"   -> ParseUint(s, 8)
      [] kind = "uint16"  -> ParseUint(s, 16)
      [] kind = "uint32"  -> ParseUint(s, 32)
      [] kind = "uint64"  -> ParseUint(s, 64)
      [] kind = "float32" -> ParseFloat(s)
      [] kind = "float64" -> ParseFloat(s)

\* typeParsers[type](s): url.URL and time.Duration
typeParsers(t, s) ==
    IF t = TURL THEN URLParse(s) ELSE ParseDuration(s)

\* getParseFunc(fieldType): ok, and which table holds the function
getParseFunc(t) ==
    IF t \in {TURL, TDuration} THEN [ok |-> TRUE, table |-> "type"]
    ELSE IF t.k \in {"bool", "string"} \cup IntKinds \cup UintKinds \cup FloatKinds THEN [ok |-> TRUE, table |-> "kind"]
    ELSE [ok |-> FALSE, table |-> ""]

\* parseFn(value) for the function getParseFunc returned
parseFn(t, s) ==
    IF getParseFunc(t).table = "type" THEN typeParsers(t, s) ELSE kindParsers(t.k, s)

Set(v, e) == [v |-> v, err |-> e]

\* tm.UnmarshalText(value) on pointer or value v of type t: the receiver
\* afterwards and the error.  (*Time).UnmarshalText assigns the parsed
\* time, the zero time when parsing failed; badMarshaller's always fails.
UnmarshalText(t, v, s) ==
    IF IsPtrTo(t, TTime)
    THEN LET assign(r) ==
               IF r.ok THEN Set(Ref(r.v), Nil)
               ELSE Set(Ref(ZeroOf(TTime)), ErrParse(r.why))
         IN assign(TimeUnmarshalText(s))
    ELSE Set(v, ErrOops)

\* the loop of unmarshalSlice from part i on
RECURSIVE unmarshalSliceFrom(_, _, _, _, _)
unmarshalSliceFrom(t, v, parts, i, values) ==
    IF i > Len(parts) THEN Set(SliceV(values), Nil)
    ELSE IF ~ImplementsTextUnmarshaler(Elem(t))
    THEN Set(v, Panic("interface conversion: not an encoding.TextUnmarshaler"))
    ELSE LET after(r) ==
               IF r.err # Nil THEN Set(v, r.err)
               ELSE unmarshalSliceFrom(t, v, parts, i + 1,
                       Append(values, IF Elem(t).k = "ptr" THEN r.v
                                      ELSE ZeroOf(Elem(t))))
         IN after(UnmarshalText(Elem(t),
                                IF Elem(t).k = "ptr" THEN Ref(ZeroOf(Elem(Elem(t))))
                                ELSE ZeroOf(Elem(t)),
                                parts[i]))

unmarshalSlice(t, v, parts) == unmarshalSliceFrom(t, v, parts, 1, <<>>)

\* the loop of setSlice from part i on
RECURSIVE setSliceFrom(_, _, _, _, _)
setSliceFrom(t, v, parts, i, values) ==
    IF i > Len(parts) THEN Set(SliceV(values), Nil)
    ELSE LET after(r) ==
               IF ~r.ok THEN Set(v, ErrParse(r.why))
               ELSE setSliceFrom(t, v, parts, i + 1,
                                 Append(values, IF Elem(t).k = "ptr" THEN Ref(r.v)
                                                ELSE r.v))
         IN after(parseFn(Indirect(Elem(t)), parts[i]))

\* setSlice with values made from the slice the field holds instead of
\* reflect.MakeSlice(field.Type, 0, len(parts)): the parsed elements are
\* appended to the old ones.  C11 must reject it.
setSliceKeepsOld(t, v, value) ==
    IF ImplementsTextUnmarshaler(PtrTo(Indirect(Elem(t))))
    THEN unmarshalSlice(t, v, Split(value, ","))
    ELSE IF ~getParseFunc(Indirect(Elem(t))).ok
    THEN Set(v, ErrUnsupported(Indirect(Elem(t)).str))
    ELSE setSliceFrom(t, v, Split(value, ","), 1, v.elems)

\* setSlice(rv, field, value), rv being the slice v of type t
setSlice(t, v, value) ==
    IF ImplementsTextUnmarshaler(PtrTo(Indirect(Elem(t))))
    THEN unmarshalSlice(t, v, Split(value, ","))
    ELSE IF ~getParseFunc(Indirect(Elem(t))).ok
    THEN Set(v, ErrUnsupported(Indirect(Elem(t)).str))
    ELSE setSliceFrom(t, v, Split(value, ","), 1, <<>>)

\* setField(rv, field, value), rv being the value v of the field's type t:
\* the field afterwards and the error
setField(t, v, value) ==
    IF t.k = "slice" THEN setSlice(t, v, value)
    ELSE LET alloc(v1) ==
               IF ImplementsTextUnmarshaler(t) THEN UnmarshalText(t, v1, value)
               ELSE IF getParseFunc(Indirect(t)).ok
               THEN LET assign(r) ==
                          IF ~r.ok THEN Set(v1, ErrParse(r.why))
                          ELSE Set(IF t.k = "ptr" THEN Ref(r.v) ELSE r.v, Nil)
                    IN assign(parseFn(Indirect(t), value))
               ELSE Set(v1, ErrUnsupported(Indirect(t).str))
         IN alloc(IF t.k = "ptr" /\ v = NilPtr THEN Ref(ZeroOf(Elem(t))) ELSE v)

\* getFieldKey without the tag: the key is always derived from the field's
\* name.  C5 must reject it.
getFieldKeyIgnoresTag(field) == VarName(field.name)

getFieldKey(field) ==
    IF field.tag = <<>> THEN VarName(field.name) ELSE field.tag

\* fieldVal.CanSet(): the field is exported
CanSet(field) == field.name[1] \in Upper

\* struct v with field i replaced
WithField(v, i, x) == [v EXCEPT ![i] = x]

RECURSIVE bind(_, _, _)
RECURSIVE populateFrom(_, _, _, _)
\* populateField testing the ok of env.Lookup(key) instead of value == "":
\* a key present with the empty string is converted like any other.  C3
\* must reject it.
populateFieldSetsEmpty(field, fv, env) ==
    LET typed(ft) ==
          IF ~CanSet(field) THEN Set(fv, Nil)
          ELSE IF ft.k = "ptr" /\ fv # NilPtr THEN bind(ft, fv, env)
          ELSE IF ft.k = "struct" /\ ft.tname = ""
          THEN LET pointee(r) == Set(Deref(r.v), r.err)
               IN pointee(bind(PtrTo(ft), Ref(fv), env))
          ELSE LET keyed(key) ==
                     IF key = <<"-">> THEN Set(fv, Nil)
                     ELSE IF ~Has(env, key)
                     THEN IF ft.k = "struct" THEN populateFrom(ft, fv, env, 1)
                          ELSE Set(fv, Nil)
                     ELSE setField(ft, fv, env[key])
               IN keyed(getFieldKey(field))
    IN typed(field.type)

\* the body of the loop of populate for one field with value fv: the field
\* afterwards and the error
populateField(field, fv, env) ==
    LET typed(ft) ==
          IF ~CanSet(field) THEN Set(fv, Nil)
          ELSE IF ft.k = "ptr" /\ fv # NilPtr THEN bind(ft, fv, env)
          ELSE IF ft.k = "struct" /\ ft.tname = ""
          THEN LET pointee(r) == Set(Deref(r.v), r.err)
               IN pointee(bind(PtrTo(ft), Ref(fv), env))
          ELSE LET looked(value) ==
                     IF value = <<>>
                     THEN IF ft.k = "struct" THEN populateFrom(ft, fv, env, 1)
                          ELSE Set(fv, Nil)
                     ELSE setField(ft, fv, value)
                   keyed(key) ==
                     IF key = <<"-">> THEN Set(fv, Nil)
                     ELSE looked(Lookup(env, key))
               IN keyed(getFieldKey(field))
    IN typed(field.type)

\* populateFrom with "return err" replaced by remembering the first error:
\* the fields after a failing one are still populated.  C12 must reject it.
RECURSIVE populateFromContinues(_, _, _, _)
populateFromContinues(t, v, env, i) ==
    IF i > Len(t.fields) THEN Set(v, Nil)
    ELSE LET after(r) ==
               LET rest(q) == Set(q.v, IF r.err # Nil THEN r.err ELSE q.err)
               IN rest(populateFromContinues(t, WithField(v, i, r.v), env, i + 1))
         IN after(populateField(t.fields[i], v[i], env))

\* the loop of populate over the fields of struct v from field i on: the
\* struct afterwards and the error
populateFrom(t, v, env, i) ==
    IF i > Len(t.fields) THEN Set(v, Nil)
    ELSE LET after(r) ==
               IF r.err # Nil THEN Set(WithField(v, i, r.v), r.err)
               ELSE populateFrom(t, WithField(v, i, r.v), env, i + 1)
         IN after(populateField(t.fields[i], v[i], env))

populate(t, v, env) == populateFrom(t, v, env, 1)

\* bind(v, env) for an argument v of type t: the argument afterwards (a
\* pointer with its pointee) and the error
bind(t, v, env) ==
    IF t.k # "ptr" THEN Set(v, ErrNotStructPtr)
    ELSE IF v = NilPtr \/ Elem(t).k # "struct" THEN Set(v, ErrNotStructPtr)
    ELSE LET done(r) == Set(Ref(r.v), r.err)
         IN done(populate(Elem(t), Deref(v), env))

\* Bind(v, env)
Bind(t, v, env) == bind(t, v, env)


----------------------------------------------------------------------------
(* The structs, values and sources the model draws its inputs from         *)

MaxSliceLen == 2

\* all sequences over S of length at most n
SeqsUpTo(S, n) == UNION {[1..k -> S] : k \in 0..n}

\* the values of type t the model draws from, on a platform whose int has
\* isz bits
RECURSIVE Samples(_, _)
RECURSIVE SampleStructs(_, _, _)
Samples(t, isz) ==
    CASE t = TDuration -> {IntZero, MkInt(FALSE, <<"6","0">>), MkInt(FALSE, <<"3","6","0","5">>)}
      [] t = TBadM     -> {<<>>, <<"o","o","p","s">>}
      \* url.URL values: the zero URL, http://h and http://u@h/p
      [] t = TURL      -> { <<<<>>, NilPtr, <<>>, <<>>>>,
                            <<<<"h","t","t","p">>, NilPtr, <<"h">>, <<>>>>,
                            <<<<"h","t","t","p">>, Ref(<<<<"u">>>>), <<"h">>, <<"/","p">>>> }
      [] t = TUserinfo -> {<<<<"u">>>>}
      [] t = TTime     -> {<<IntZero>>, <<MkInt(FALSE, <<"5">>)>>}
      [] OTHER ->
        CASE t.k = "bool"   -> BOOLEAN
          [] t.k = "string" -> {<<>>, <<"x">>, <<"y">>}
          [] t.k \in IntKinds \cup UintKinds ->
           (
                CASE t.k = "int"    -> {IntZero, MkInt(FALSE, <<"1">>), MkInt(TRUE, <<"1">>), MkInt(FALSE, <<"2","1","4","7","4","8","3","6","4","7">>)}
                                       \cup (IF isz = 64 THEN {MkInt(FALSE, <<"2","1","4","7","4","8","3","6","4","8">>), MkInt(TRUE, <<"9","2","2","3","3","7","2","0","3","6","8","5","4","7","7","5","8","0","8">>)} ELSE {})
                  [] t.k = "int8"   -> {IntZero, MkInt(FALSE, <<"1">>), MkInt(FALSE, <<"1","2","7">>), MkInt(TRUE, <<"1","2","8">>)}
                  [] t.k = "int16"  -> {IntZero, MkInt(FALSE, <<"3","2","7","6","7">>), MkInt(TRUE, <<"3","2","7","6","8">>)}
                  [] t.k = "int32"  -> {IntZero, MkInt(FALSE, <<"2","1","4","7","4","8","3","6","4","7">>), MkInt(TRUE, <<"2","1","4","7","4","8","3","6","4","8">>)}
                  [] t.k = "int64"  -> {IntZero, MkInt(FALSE, <<"2","1","4","7","4","8","3","6","4","8">>), MkInt(FALSE, <<"9","2","2","3","3","7","2","0","3","6","8","5","4","7","7","5","8","0","7">>), MkInt(TRUE, <<"9","2","2","3","3","7","2","0","3","6","8","5","4","7","7","5","8","0","8">>)}
                  [] t.k = "uint"   -> {IntZero, MkInt(FALSE, <<"1">>), MkInt(FALSE, <<"4","2","9","4","9","6","7","2","9","5">>)}
                                       \cup (IF isz = 64 THEN {MkInt(FALSE, <<"4","2","9","4","9","6","7","2","9","6">>), MkInt(FALSE, <<"1","8","4","4","6","7","4","4","0","7","3","7","0","9","5","5","1","6","1","5">>)} ELSE {})
                  [] t.k = "uint8"  -> {IntZero, MkInt(FALSE, <<"2","5","5">>)}
                  [] t.k = "uint16" -> {IntZero, MkInt(FALSE, <<"6","5","5","3","5">>)}
                  [] t.k = "uint32" -> {IntZero, MkInt(FALSE, <<"4","2","9","4","9","6","7","2","9","5">>)}
                  [] t.k = "uint64" -> {IntZero, MkInt(FALSE, <<"4","2","9","4","9","6","7","2","9","6">>), MkInt(FALSE, <<"1","8","4","4","6","7","4","4","0","7","3","7","0","9","5","5","1","6","1","5">>)}
           )
          [] t.k = "float32" -> {FloatZero, MkFloat(FALSE, <<"1">>, <<"5">>),
                                 MkFloat(TRUE, <<"0">>, <<"2","5">>)}
          [] t.k = "float64" -> {FloatZero, MkFloat(FALSE, <<"3">>, <<"3">>),
                                 MkFloat(TRUE, <<"1">>, <<"1">>)}
          [] t.k = "map"    -> {[isnil |-> TRUE, elems |-> <<>>], [isnil |-> FALSE, elems |-> <<>>]}
          [] t.k = "ptr"    -> {NilPtr} \cup {Ref(x) : x \in Samples(Elem(t), isz)}
          [] t.k = "slice"  ->
                {[isnil |-> TRUE, elems |-> <<>>]} \cup {SliceV(es) : es \in SeqsUpTo(Samples(Elem(t), isz), MaxSliceLen)}
          [] t.k = "struct" -> SampleStructs(t, isz, 1)
\* the tuples of samples of fields i.. of struct type t
SampleStructs(t, isz, i) ==
    IF i > Len(t.fields) THEN {<<>>}
    ELSE {<<x>> \o rest : x \in Samples(t.fields[i].type, isz),
                          rest \in SampleStructs(t, isz, i + 1)}


\* a named struct type in the shape of Nested of the tests:
\* type Nested struct { A string; B int8 }
TNested ==
    StructT("Nested", "env.Nested",
            << Field(<<"A">>, <<>>, Basic("string")), Field(<<"B">>, <<>>, Basic("int8")) >>)
\* type TestInvalid struct { Map map[string]string }
TTestInvalid ==
    StructT("TestInvalid", "env.TestInvalid", << Field(<<"M","a","p">>, <<>>, TMap) >>)
\* struct { A string }, an unnamed struct type
TAnon == StructT("", "struct { A string }", << Field(<<"A">>, <<>>, Basic("string")) >>)

\* type BadTarget struct { Oops badMarshaller }
TBadTarget ==
    StructT("BadTarget", "env.BadTarget", << Field(<<"O","o","p","s">>, <<>>, TBadM) >>)

\* a named struct type Config with the given fields
Config(fields) == StructT("Config", "env.Config", fields)
\* type Config struct { V t }
Config1(t) == Config(<< Field(<<"V">>, <<>>, t) >>)

\* a case: a struct type, the keys a source may set and the non-empty
\* values it may set them to
Case(t, keys, evals) == [t |-> t, keys |-> keys, evals |-> evals]

Cases ==
    << Case(Config1(Basic("bool")),    {<<"V">>}, {<<"t","r","u","e">>, <<"d","a","v","e">>}),
       Case(Config1(Basic("string")),  {<<"V">>}, {<<"x">>, <<"z">>}),
       Case(Config1(Basic("int")),     {<<"V">>}, {<<"1">>, <<"2","1","4","7","4","8","3","6","4","8">>, <<"3",".","5">>}),
       Case(Config1(Basic("int8")),    {<<"V">>}, {<<"1">>, <<"1","2","8">>, <<"-","1","2","8">>}),
       Case(Config1(Basic("int16")),   {<<"V">>}, {<<"3","2","7","6","7">>, <<"d","a","v","e">>}),
       Case(Config1(Basic("int32")),   {<<"V">>}, {<<"2","1","4","7","4","8","3","6","4","7">>, <<"2","1","4","7","4","8","3","6","4","8">>}),
       Case(Config1(Basic("int64")),   {<<"V">>}, {<<"9","2","2","3","3","7","2","0","3","6","8","5","4","7","7","5","8","0","7">>, <<"9","2","2","3","3","7","2","0","3","6","8","5","4","7","7","5","8","0","8">>}),
       Case(Config1(Basic("uint")),    {<<"V">>}, {<<"1">>, <<"-","1">>, <<"4","2","9","4","9","6","7","2","9","6">>}),
       Case(Config1(Basic("uint8")),   {<<"V">>}, {<<"2","5","5">>, <<"2","5","6">>}),
       Case(Config1(Basic("uint16")),  {<<"V">>}, {<<"6","5","5","3","5">>, <<"-","1">>}),
       Case(Config1(Basic("uint32")),  {<<"V">>}, {<<"4","2","9","4","9","6","7","2","9","5">>, <<"3",".","5">>}),
       Case(Config1(Basic("uint64")),  {<<"V">>}, {<<"1","8","4","4","6","7","4","4","0","7","3","7","0","9","5","5","1","6","1","5">>, <<"d","a","v","e">>}),
       Case(Config1(Basic("float32")), {<<"V">>}, {<<"1",".","5">>, <<"d","a","v","e">>}),
       Case(Config1(Basic("float64")), {<<"V">>}, {<<"3",".","3">>, <<"-","1",".","1">>}),
       Case(Config1(TDuration), {<<"V">>}, {<<"1","m","0","s">>, <<"9","0">>, <<"d","a","v","e">>}),
       Case(Config1(TURL),     {<<"V">>, <<"S","C","H","E","M","E">>, <<"U","S","E","R">>}, {<<"h","t","t","p",":","/","/","h">>, <<":">>}),
       Case(Config1(PtrTo(TURL)), {<<"V">>, <<"H","O","S","T">>}, {<<"h","t","t","p",":","/","/","u","@","h","/","p">>, <<":">>}),
       \* struct { A int8; B string }
       Case(Config(<< Field(<<"A">>, <<>>, Basic("int8")), Field(<<"B">>, <<>>, Basic("string")) >>),
            {<<"A">>, <<"B">>}, {<<"1">>, <<"x">>}),
       \* struct { A string `env:"K"`; B string }
       Case(Config(<< Field(<<"A">>, <<"K">>, Basic("string")), Field(<<"B">>, <<>>, Basic("string")) >>),
            {<<"K">>, <<"A">>}, {<<"x">>, <<"z">>}),
       \* struct { N *Inner }
       Case(Config(<< Field(<<"N">>, <<>>, PtrTo(StructT("Inner", "env.Inner", << Field(<<"A","b","C","d">>, <<"K">>, Basic("string")), Field(<<"E","f","G","h">>, <<>>, Basic("string")) >>))) >>),
            {<<"K">>, <<"A","B","_","C","D">>, <<"E","F","_","G","H">>}, {<<"z">>}),
       \* struct { hid string `env:"S"`; Ign string `env:"-"`; S string }
       Case(Config(<< Field(<<"h","i","d">>, <<"S">>, Basic("string")), Field(<<"I","g","n">>, <<"-">>, Basic("string")),
                      Field(<<"S">>, <<>>, Basic("string")) >>),
            {<<"S">>, <<"I","G","N">>, <<"H","I","D">>}, {<<"z">>}),
       \* struct { N *Nested `env:"-"` }
       Case(Config(<< Field(<<"N">>, <<"-">>, PtrTo(TNested)) >>), {<<"A">>, <<"B">>, <<"N">>}, {<<"z">>, <<"1">>}),
       \* struct { N Nested `env:"-"` }
       Case(Config(<< Field(<<"N">>, <<"-">>, TNested) >>), {<<"A">>, <<"B">>, <<"N">>}, {<<"z">>, <<"1">>}),
       \* struct { U struct { A string } `env:"-"` }
       Case(Config(<< Field(<<"U">>, <<"-">>, TAnon) >>), {<<"A">>, <<"U">>}, {<<"z">>}),
       \* struct { U struct { A string } }
       Case(Config(<< Field(<<"U">>, <<>>, TAnon) >>), {<<"A">>, <<"U">>}, {<<"z">>}),
       \* struct { n *Nested }
       Case(Config(<< Field(<<"n">>, <<>>, PtrTo(TNested)) >>), {<<"A">>, <<"B">>, <<"N">>}, {<<"z">>, <<"1">>}),
       \* struct { P *int8 }
       Case(Config(<< Field(<<"P">>, <<>>, PtrTo(Basic("int8"))) >>), {<<"P">>}, {<<"1">>, <<"d","a","v","e">>}),
       \* TestInvalid
       Case(TTestInvalid, {<<"M","A","P">>}, {<<"b","l","a","h">>}),
       \* struct { Nested *TestInvalid }
       Case(Config(<< Field(<<"N","e","s","t","e","d">>, <<>>, PtrTo(TTestInvalid)) >>),
            {<<"M","A","P">>, <<"N","E","S","T","E","D">>}, {<<"b","l","a","h">>}),
       \* type embedded struct { TestInvalid }
       Case(StructT("embedded", "env.embedded",
                    << Field(<<"T","e","s","t","I","n","v","a","l","i","d">>, <<>>, TTestInvalid) >>),
            {<<"M","A","P">>, <<"T","E","S","T","_","I","N","V","A","L","I","D">>}, {<<"b","l","a","h">>}),
       \* struct { Slice []map[string]string }
       Case(Config(<< Field(<<"S","l","i","c","e">>, <<>>, SliceOf(TMap)) >>),
            {<<"S","L","I","C","E">>}, {<<"b","l","a","h",",","b","l","a","h">>}),
       \* struct { S string; I int8; Ints []uint8 }
       Case(Config(<< Field(<<"S">>, <<>>, Basic("string")), Field(<<"I">>, <<>>, Basic("int8")),
                      Field(<<"I","n","t","s">>, <<>>, SliceOf(Basic("uint8"))) >>),
            {<<"S">>, <<"I","N","T","S">>}, {<<"x">>, <<"1",",","2">>}),
       \* struct { I int8; N *Nested }
       Case(Config(<< Field(<<"I">>, <<>>, Basic("int8")), Field(<<"N">>, <<>>, PtrTo(TNested)) >>),
            {<<"I">>, <<"A">>}, {<<"1">>}),
       \* struct { A string; N Nested }
       Case(Config(<< Field(<<"A">>, <<>>, Basic("string")), Field(<<"N">>, <<>>, TNested) >>),
            {<<"A">>, <<"B">>, <<"N">>}, {<<"z">>, <<"1">>}),
       \* struct { N Nested; A string }
       Case(Config(<< Field(<<"N">>, <<>>, TNested), Field(<<"A">>, <<>>, Basic("string")) >>),
            {<<"A">>, <<"B">>, <<"N">>}, {<<"z">>, <<"1">>}),
       \* struct { N1 Nested; N2 *Nested }
       Case(Config(<< Field(<<"N","1">>, <<>>, TNested), Field(<<"N","2">>, <<>>, PtrTo(TNested)) >>),
            {<<"A">>, <<"B">>}, {<<"z">>, <<"1">>}),
       \* struct { Ss []string }
       Case(Config(<< Field(<<"S","s">>, <<>>, SliceOf(Basic("string"))) >>), {<<"S","S">>}, {<<"x",",","y">>, <<"x">>}),
       \* type TestNested struct { Nested }
       Case(StructT("TestNested", "env.TestNested",
                    << Field(<<"N","e","s","t","e","d">>, <<>>, TNested) >>),
            {<<"A">>, <<"B">>, <<"N","E","S","T","E","D">>}, {<<"z">>, <<"1">>}),
       \* struct { Ps []*int8 }
       Case(Config(<< Field(<<"P","s">>, <<>>, SliceOf(PtrTo(Basic("int8")))) >>),
            {<<"P","S">>}, {<<"1",",","-","1","2","8">>, <<"1">>, <<"1",",","x">>}),
       \* struct { A string; B int8; C string }
       Case(Config(<< Field(<<"A">>, <<>>, Basic("string")), Field(<<"B">>, <<>>, Basic("int8")),
                      Field(<<"C">>, <<>>, Basic("string")) >>),
            {<<"A">>, <<"B">>, <<"C">>}, {<<"z">>, <<"1">>}),
       \* BadTarget
       Case(TBadTarget, {<<"O","O","P","S">>}, {<<"x">>}),
       \* struct { Oops []badMarshaller }
       Case(Config(<< Field(<<"O","o","p","s">>, <<>>, SliceOf(TBadM)) >>), {<<"O","O","P","S">>}, {<<"x">>}),
       \* struct { Oops BadTarget }
       Case(Config(<< Field(<<"O","o","p","s">>, <<>>, TBadTarget) >>), {<<"O","O","P","S">>}, {<<"x">>}),
       \* struct { V *time.Time }
       Case(Config1(PtrTo(TTime)), {<<"V">>}, {<<"T","5">>, <<"d","a","v","e">>}),
       \* struct { Ts []time.Time }
       Case(Config(<< Field(<<"T","s">>, <<>>, SliceOf(TTime)) >>), {<<"T","S">>}, {<<"T","5">>, <<"T","5",",","T","6">>}),
       \* struct { Ts []*time.Time }
       Case(Config(<< Field(<<"T","s">>, <<>>, SliceOf(PtrTo(TTime))) >>), {<<"T","S">>}, {<<"T","5",",","T","6">>, <<"d","a","v","e">>})
    >>

CaseType(i) == Cases[i].t

\* what a caller may pass instead of a pointer to a struct: a []string, a
\* map, an int, a *int, a nil *Nested, a string, a struct value, a **Nested
Invalid(t, v) == [t |-> t, v |-> v]
InvalidArgs ==
    << Invalid(SliceOf(Basic("string")), SliceV(<<>>)),
       Invalid(TMap, [isnil |-> FALSE, elems |-> <<>>]),
       Invalid(Basic("int"), MkInt(FALSE, <<"1">>)),
       Invalid(PtrTo(Basic("int")), Ref(MkInt(FALSE, <<"0">>))),
       Invalid(PtrTo(TNested), NilPtr),
       Invalid(Basic("string"), <<"x">>),
       Invalid(TNested, ZeroOf(TNested)),
       Invalid(PtrTo(PtrTo(TNested)), Ref(Ref(ZeroOf(TNested)))) >>

----------------------------------------------------------------------------
(* Reader                                                                  *)

\* MapEnv.Lookup(key): s, ok := env[key]
MapEnvLookup(env, key) == [s |-> Lookup(env, key), ok |-> Has(env, key)]

\* Get with "if !ok || s == "" { return fb }": an empty variable counts as
\* unset.  C20 must reject it.
GetFallbackOnEmpty(env, key, fallback) ==
    LET fb == IF Len(fallback) > 0 THEN fallback[1] ELSE <<>>
        found(r) == IF ~r.ok \/ r.s = <<>> THEN fb ELSE r.s
    IN found(MapEnvLookup(env, key))
\* Reader{env}.Get(key, fallback...)
Get(env, key, fallback) ==
    LET fb == IF Len(fallback) > 0 THEN fallback[1] ELSE <<>>
        found(r) == IF ~r.ok THEN fb ELSE r.s
    IN found(MapEnvLookup(env, key))

\* parseInt: strconv.ParseInt(s, 10, 32), then strconv.ParseFloat(s, 64) and
\* int(n), which drops the fraction
parseInt(s) ==
    LET viaFloat(f) ==
          IF ~f.ok THEN ParseErr("invalid int")
          ELSE Parsed(MkInt(f.v.neg /\ f.v.ip # <<"0">>, f.v.ip))
        first(r) == IF r.ok THEN r ELSE viaFloat(ParseFloat(s))
    IN first(ParseInt(s, 32))

\* parseUint without its "if f < 0" test: uint(f) of a negative f, taken as
\* the magnitude.  C21 must reject it.
parseUintOfNegative(s) ==
    LET viaFloat(f) ==
          IF ~f.ok THEN ParseErr("invalid int")
          ELSE Parsed(MkInt(FALSE, f.v.ip))
        first(r) == IF r.ok THEN r ELSE viaFloat(ParseFloat(s))
    IN first(ParseUint(s, 32))
\* parseUint: strconv.ParseUint(s, 10, 32), then strconv.ParseFloat(s, 64),
\* an error if f < 0, and uint(f)
parseUint(s) ==
    LET viaFloat(f) ==
          IF ~f.ok THEN ParseErr("invalid int")
          ELSE IF f.v.neg /\ (f.v.ip # <<"0">> \/ f.v.fp # <<>>)
          THEN ParseErr("less than zero")
          ELSE Parsed(MkInt(FALSE, f.v.ip))
        first(r) == IF r.ok THEN r ELSE viaFloat(ParseFloat(s))
    IN first(ParseUint(s, 32))

\* Reader{env}.GetInt(key, fallback...)
GetInt(env, key, fallback) ==
    LET fb == IF Len(fallback) > 0 THEN fallback[1] ELSE IntZero
        parsed(r) == IF ~r.ok THEN fb ELSE r.v
        found(l) == IF ~l.ok THEN fb ELSE parsed(parseInt(l.s))
    IN found(MapEnvLookup(env, key))

\* Reader{env}.GetUint(key, fallback...)
GetUint(env, key, fallback) ==
    LET fb == IF Len(fallback) > 0 THEN fallback[1] ELSE IntZero
        parsed(r) == IF ~r.ok THEN fb ELSE r.v
        found(l) == IF ~l.ok THEN fb ELSE parsed(parseUint(l.s))
    IN found(MapEnvLookup(env, key))

\* Reader{env}.GetFloat(key, fallback...)
GetFloat(env, key, fallback) ==
    LET fb == IF Len(fallback) > 0 THEN fallback[1] ELSE FloatZero
        parsed(r) == IF ~r.ok THEN fb ELSE r.v
        found(l) == IF ~l.ok THEN fb ELSE parsed(ParseFloat(l.s))
    IN found(MapEnvLookup(env, key))

\* Reader{env}.GetDuration(key, fallback...)
GetDuration(env, key, fallback) ==
    LET fb == IF Len(fallback) > 0 THEN fallback[1] ELSE IntZero
        parsed(r) == IF ~r.ok THEN fb ELSE r.v
        found(l) == IF ~l.ok THEN fb ELSE parsed(ParseDuration(l.s))
    IN found(MapEnvLookup(env, key))

\* Reader{env}.GetBool(key, fallback...)
GetBool(env, key, fallback) ==
    LET fb == IF Len(fallback) > 0 THEN fallback[1] ELSE FALSE
        parsed(r) == IF ~r.ok THEN fb ELSE r.v
        found(l) == IF ~l.ok THEN fb ELSE parsed(ParseBool(l.s))
    IN found(MapEnvLookup(env, key))

\* no Get yet
NoGet == [env |-> EmptyMap, key |-> <<>>, fallback |-> <<>>, value |-> <<>>]

----------------------------------------------------------------------------
(* The state machine: a caller holding one struct dumps it or binds it to  *)
(* a source; after a Dump it may bind a fresh struct to what Dump          *)
(* returned, after a Bind it may bind the struct to the same source again. *)

NoDump == [noZero |-> FALSE, nameFunc |-> "VarName", byPtr |-> FALSE,
           src |-> <<>>, vars |-> EmptyMap, err |-> Nil]
NoBind == [env |-> EmptyMap, before |-> <<>>, err |-> Nil]

\* the environment of the process before the call: a variable whose name
\* is the key of the cases' field V, and one no case has a key for
Environ0 == [k \in {<<"V">>, <<"H","O","M","E">>} |-> <<"o">>]

Init ==
    /\ name = <<>>
    /\ out = <<>>
    /\ tid \in DOMAIN Cases
    /\ intSize \in (IF \E i \in DOMAIN CaseType(tid).fields : CaseType(tid).fields[i].type.k \in {"int", "uint"} THEN {32, 64} ELSE {64})
    /\ val \in Samples(CaseType(tid), intSize)
    /\ op = "init"
    /\ dumped = NoDump
    /\ bound = NoBind
    /\ heap = <<>>
    /\ stack = <<>>
    /\ got = NoGet
    /\ environ = Environ0

\* m, err := Dump(val, opts...) or Dump(&val, opts...)
DoDump(noZero, fn, byPtr) ==
    LET done(r) ==
          /\ op' = "Dump"
          /\ dumped' = [noZero |-> noZero, nameFunc |-> fn, byPtr |-> byPtr,
                        src |-> val, vars |-> r.vars, err |-> r.err]
    IN /\ op = "init"
       /\ done(IF byPtr THEN Dump(PtrTo(CaseType(tid)), Ref(val), noZero, fn)
               ELSE Dump(CaseType(tid), val, noZero, fn))
       /\ bound' = NoBind
       /\ UNCHANGED <<name, out, intSize, tid, val, heap, stack, got, environ>>

\* err := Bind(&val, MapEnv(env))
DoBind(env) ==
    LET done(r) ==
          /\ op' = "Bind"
          /\ val' = Deref(r.v)
          /\ bound' = [env |-> env, before |-> val, err |-> r.err]
    IN /\ op = "init"
       /\ done(Bind(PtrTo(CaseType(tid)), Ref(val), env))
       /\ UNCHANGED <<name, out, intSize, tid, dumped, heap, stack, got, environ>>

\* err := Bind(&val, env) once more, with the source of the Bind before
DoRebind ==
    LET done(r) ==
          /\ op' = "Rebind"
          /\ val' = Deref(r.v)
          /\ bound' = [env |-> bound.env, before |-> val, err |-> r.err]
    IN /\ op = "Bind"
       /\ done(Bind(PtrTo(CaseType(tid)), Ref(val), bound.env))
       /\ UNCHANGED <<name, out, intSize, tid, dumped, heap, stack, got, environ>>

\* var target T; err := Bind(&target, MapEnv(m)) with m as Dump returned
\* it; the caller keeps target
DoBindDumped ==
    LET done(zero, r) ==
          /\ op' = "BindDumped"
          /\ val' = Deref(r.v)
          /\ bound' = [env |-> dumped.vars, before |-> zero, err |-> r.err]
    IN /\ op = "Dump"
       /\ dumped.err = Nil
       /\ done(ZeroOf(CaseType(tid)),
               Bind(PtrTo(CaseType(tid)), Ref(ZeroOf(CaseType(tid))), dumped.vars))
       /\ UNCHANGED <<name, out, intSize, tid, dumped, heap, stack, got, environ>>

\* err := Bind(x, env) with x not a pointer to a struct
DoBindInvalid(i, env) ==
    LET done(r) ==
          /\ op' = "BindInvalid"
          /\ bound' = [env |-> env, before |-> <<>>, err |-> r.err]
    IN /\ op = "init"
       /\ done(Bind(InvalidArgs[i].t, InvalidArgs[i].v, env))
       /\ dumped' = NoDump
       /\ UNCHANGED <<name, out, intSize, tid, val, heap, stack, got, environ>>

\* m, err := Dump(x) with x neither a struct nor a pointer to one
DoDumpInvalid(i, noZero) ==
    LET done(r) ==
          /\ op' = "DumpInvalid"
          /\ dumped' = [noZero |-> noZero, nameFunc |-> "VarName", byPtr |-> FALSE,
                        src |-> <<>>, vars |-> r.vars, err |-> r.err]
    IN /\ op = "init"
       /\ done(Dump(InvalidArgs[i].t, InvalidArgs[i].v, noZero, "VarName"))
       /\ bound' = NoBind
       /\ UNCHANGED <<name, out, intSize, tid, val, heap, stack, got, environ>>

\* err := Export(x, opts...) with x of type t
DoExport(t, x, noZero, fn) ==
    /\ op = "init"
    /\ op' = "Export"
    /\ \E o \in Export(environ, t, x, noZero, fn) :
          /\ environ' = o.environ
          /\ dumped' = [noZero |-> noZero, nameFunc |-> fn, byPtr |-> IsPtrTo(t, CaseType(tid)),
                        src |-> [t |-> t, v |-> x], vars |-> EmptyMap, err |-> o.err]
    /\ bound' = NoBind
    /\ UNCHANGED <<name, out, intSize, tid, val, heap, stack, got>>

Next ==
    \/ \E noZero \in BOOLEAN, fn \in {"VarName", "LowerDash"}, byPtr \in BOOLEAN :
          DoDump(noZero, fn, byPtr)
    \/ \E env \in UNION {[K -> Cases[tid].evals \cup {<<>>}] : K \in SUBSET Cases[tid].keys} : DoBind(env)
    \/ DoBindDumped
    \/ DoRebind
    \/ \E i \in DOMAIN InvalidArgs, env \in {EmptyMap, [k \in Cases[tid].keys |-> CHOOSE x \in Cases[tid].evals : TRUE]} :
          DoBindInvalid(i, env)
    \/ \E i \in DOMAIN InvalidArgs, noZero \in BOOLEAN :
          InvalidArgs[i].t.k # "struct" /\ DoDumpInvalid(i, noZero)
    \/ \E noZero \in BOOLEAN, fn \in {"VarName", "LowerDash"} :
          \/ DoExport(CaseType(tid), val, noZero, fn)
          \/ DoExport(PtrTo(CaseType(tid)), Ref(val), noZero, fn)
    \/ \E i \in DOMAIN InvalidArgs :
          DoExport(InvalidArgs[i].t, InvalidArgs[i].v, TRUE, "VarName")

Spec == Init /\ [][Next]_vars

----------------------------------------------------------------------------
(* VarName on its own: the identifiers up to MaxNameLen over a small       *)
(* alphabet, and the identifiers of the tests                              *)

MaxNameLen == 4


\* the identifiers of TestVarName, ExampleVarName and TestSplitCamelCase,
\* and loginURLEncoding: an acronym inside an identifier
TestNames ==
    { <<"U","R","L">>, <<"N","a","m","e">>, <<"L","a","s","t","N","a","m","e">>, <<"U","R","L","E","n","c","o","d","i","n","g">>, <<"L","o","n","g","B","e","a","r","d">>, <<"H","T","M","L">>, <<"e","t","c">>,
      <<"n","a","m","e">>, <<"F","o","l","d","e","r">>, <<"M","T","i","m","e">>, <<"V","I","P","a","t","h">>, <<"S","S","L","P","o","r","t">>, <<"L","o","n","g","H","o","r","s","e">>, <<"l","o","g","i","n","U","R","L">>,
      <<"n","e","w","H","o","m","e","A","d","d","r","e","s","s">>, <<"P","o","i","n","t","A">>, <<"b","2","B">>, <<"B","2","B">>, <<"m","y","2","B">>, <<"m","y","B">>, <<"m","y","P","l","a","c","e","B">>,
      <<"P","l","a","c","e","A">>, <<"h","o","m","e","A","d","d","r","e","s","s">>, <<"l","o","g","i","n","U","R","L","E","n","c","o","d","i","n","g">> }


InitName ==
    /\ name = <<>>
    /\ out = <<>>
    /\ intSize = 64
    /\ tid = 1
    /\ val = ZeroOf(CaseType(1))
    /\ op = "init"
    /\ dumped = NoDump
    /\ bound = NoBind
    /\ heap = <<>>
    /\ stack = <<>>
    /\ got = NoGet
    /\ environ = EmptyMap

\* out := VarName(s)
DoVarName(s) ==
    /\ op = "init"
    /\ op' = "VarName"
    /\ name' = s
    /\ out' = VarName(s)
    /\ UNCHANGED <<intSize, tid, val, dumped, bound, heap, stack, got, environ>>

NextName ==
    \E s \in SeqsUpTo({"a", "b", "A", "B", "2", "_"}, MaxNameLen) \cup TestNames : DoVarName(s)

SpecName == InitName /\ [][NextName]_vars

----------------------------------------------------------------------------
(* Linked structs.  A struct value is a tree, but what a pointer field     *)
(* leads to need not be: with                                              *)
(*     type Node struct { V string; Next *Node }                           *)
(* a caller can make Next point to any Node, the Node itself included.     *)
(* Here the Nodes live in a heap, Dump and Bind go through them one field  *)
(* at a time, and each call of dumper.dump or populate in progress is a    *)
(* frame on the stack.                                                     *)

MaxNodes == 2

\* the number of frames the goroutine's stack has room for; beyond it the
\* Go runtime ends the program ("goroutine stack exceeds ... limit")
StackLimit == MaxNodes + 2

\* the frame of the innermost call: the Node it works on, the field it is
\* at, and its map
Top == stack[Len(stack)]

InitWalk ==
    /\ name = <<>>
    /\ out = <<>>
    /\ intSize = 64
    /\ tid = 1
    /\ val = ZeroOf(CaseType(1))
    /\ op = "init"
    /\ dumped = NoDump
    /\ bound = NoBind
    /\ heap \in [1..MaxNodes -> [V : {<<>>, <<"x">>}, Next : 0..MaxNodes]]
    /\ stack = <<>>
    /\ got = NoGet
    /\ environ = EmptyMap

\* m, err := Dump(&heap[1]): dumper.dump is entered with an empty map
WalkDump ==
    /\ op = "init"
    /\ op' = "DumpWalk"
    /\ stack' = << [node |-> 1, i |-> 1, vars |-> EmptyMap] >>
    /\ UNCHANGED <<environ, got, name, out, intSize, tid, val, dumped, bound, heap>>

\* err := Bind(&heap[1], env): populate is entered
WalkBind(env) ==
    /\ op = "init"
    /\ op' = "BindWalk"
    /\ stack' = << [node |-> 1, i |-> 1, vars |-> EmptyMap] >>
    /\ bound' = [NoBind EXCEPT !.env = env]
    /\ UNCHANGED <<environ, got, name, out, intSize, tid, val, dumped, heap>>

\* dumper.dump at field V: vars[key] = s
DumpV ==
    /\ op = "DumpWalk" /\ stack # <<>> /\ Top.i = 1
    /\ stack' = [stack EXCEPT ![Len(stack)] =
                    [node |-> Top.node, i |-> 2,
                     vars |-> Put(Top.vars, VarName(<<"V">>), heap[Top.node].V)]]
    /\ UNCHANGED <<environ, got, name, out, intSize, tid, val, op, dumped, bound, heap>>

\* dumper.dump at field Next holding nil: vars[key] = ""
DumpNextNil ==
    /\ op = "DumpWalk" /\ stack # <<>> /\ Top.i = 2 /\ heap[Top.node].Next = 0
    /\ stack' = [stack EXCEPT ![Len(stack)] =
                    [node |-> Top.node, i |-> 3,
                     vars |-> Put(Top.vars, VarName(<<"N","e","x","t">>), <<>>)]]
    /\ UNCHANGED <<environ, got, name, out, intSize, tid, val, op, dumped, bound, heap>>

\* a call that goes into the Node a non-nil Next points to (d.dump of the
\* pointee, bind of the pointer): a new frame, if the stack has room
Descend ==
    /\ op \in {"DumpWalk", "BindWalk"} /\ stack # <<>>
    /\ Top.i = 2 /\ heap[Top.node].Next # 0
    /\ IF Len(stack) < StackLimit
       THEN /\ stack' = Append(stack, [node |-> heap[Top.node].Next, i |-> 1, vars |-> EmptyMap])
            /\ op' = op
       ELSE /\ stack' = stack
            /\ op' = "overflow"
    /\ UNCHANGED <<environ, got, name, out, intSize, tid, val, dumped, bound, heap>>

\* populate at field V: setField when the source has a non-empty value
BindV ==
    /\ op = "BindWalk" /\ stack # <<>> /\ Top.i = 1
    /\ heap' = IF Lookup(bound.env, VarName(<<"V">>)) = <<>> THEN heap
               ELSE [heap EXCEPT ![Top.node].V = Lookup(bound.env, VarName(<<"V">>))]
    /\ stack' = [stack EXCEPT ![Len(stack)] = [node |-> Top.node, i |-> 2, vars |-> EmptyMap]]
    /\ UNCHANGED <<environ, got, name, out, intSize, tid, val, op, dumped, bound>>

\* populate at field Next holding nil, its key unset: continue
BindNextNil ==
    /\ op = "BindWalk" /\ stack # <<>> /\ Top.i = 2 /\ heap[Top.node].Next = 0
    /\ Lookup(bound.env, VarName(<<"N","e","x","t">>)) = <<>>
    /\ stack' = [stack EXCEPT ![Len(stack)] = [node |-> Top.node, i |-> 3, vars |-> EmptyMap]]
    /\ UNCHANGED <<environ, got, name, out, intSize, tid, val, op, dumped, bound, heap>>

\* the end of the loop over the fields: the call returns to its caller,
\* which merges the map it gets (Dump) and goes on with its next field; the
\* outermost call returns to the caller of Dump or Bind
Return ==
    /\ op \in {"DumpWalk", "BindWalk"} /\ stack # <<>> /\ Top.i = 3
    /\ IF Len(stack) = 1
       THEN /\ stack' = <<>>
            /\ op' = "returned"
            /\ dumped' = IF op = "DumpWalk" THEN [NoDump EXCEPT !.vars = Top.vars]
                         ELSE dumped
       ELSE /\ stack' = [SubSeq(stack, 1, Len(stack) - 1) EXCEPT ![Len(stack) - 1] =
                            [node |-> stack[Len(stack) - 1].node, i |-> 3,
                             vars |-> Merge(stack[Len(stack) - 1].vars, Top.vars)]]
            /\ UNCHANGED <<op, dumped>>
    /\ UNCHANGED <<environ, got, name, out, intSize, tid, val, bound, heap>>

NextWalk ==
    \/ WalkDump
    \/ \E env \in {EmptyMap, [k \in {VarName(<<"V">>)} |-> <<"z">>]} : WalkBind(env)
    \/ DumpV
    \/ DumpNextNil
    \/ Descend
    \/ BindV
    \/ BindNextNil
    \/ Return

SpecWalk == InitWalk /\ [][NextWalk]_vars

----------------------------------------------------------------------------
(* The Reader's getters on their own: a MapEnv over three keys, each       *)
(* unset, empty or set, and up to MaxFallbacks fallback arguments          *)

MaxFallbacks == 2

GetKeys == {<<"k","e","y">>, <<"e","m","p","t","y">>, <<"k","e","y","3">>}

\* the values of the variables: empty, integers, floats, a word, a duration

InitGet ==
    /\ name = <<>>
    /\ out = <<>>
    /\ intSize = 64
    /\ tid = 1
    /\ val = ZeroOf(CaseType(1))
    /\ op = "init"
    /\ dumped = NoDump
    /\ bound = NoBind
    /\ heap = <<>>
    /\ stack = <<>>
    /\ \E present \in SUBSET GetKeys :
          \E e \in [present -> { <<>>, <<"1">>, <<"-","5">>, <<"3",".","9">>, <<"-","3",".","9">>,
                                  <<"-","0",".","5">>, <<"x">>, <<"1","m">>,
                                  <<"4","2","9","4","9","6","7","2","9","6">> }] :
              got = [NoGet EXCEPT !.env = e]
    /\ environ = EmptyMap

\* v := New(got.env).Get(key, fallback...)
DoGet(key, fallback) ==
    /\ op = "init"
    /\ op' = "Get"
    /\ got' = [got EXCEPT !.key = key, !.fallback = fallback,
                          !.value = Get(got.env, key, fallback)]
    /\ UNCHANGED <<name, out, intSize, tid, val, dumped, bound, heap, stack, environ>>

\* v := New(got.env).GetInt(key, fallback...), and likewise GetUint,
\* GetFloat, GetDuration and GetBool
DoGetAs(getter, key, fallback) ==
    /\ op = "init"
    /\ op' = getter
    /\ got' = [got EXCEPT !.key = key, !.fallback = fallback,
                          !.value = CASE getter = "GetInt"      -> GetInt(got.env, key, fallback)
                                      [] getter = "GetUint"     -> GetUint(got.env, key, fallback)
                                      [] getter = "GetFloat"    -> GetFloat(got.env, key, fallback)
                                      [] getter = "GetDuration" -> GetDuration(got.env, key, fallback)
                                      [] getter = "GetBool"     -> GetBool(got.env, key, fallback)]
    /\ UNCHANGED <<name, out, intSize, tid, val, dumped, bound, heap, stack, environ>>

NextGet ==
    \/ \E key \in GetKeys, fallback \in SeqsUpTo({<<>>, <<"f">>, <<"b","o","b">>}, MaxFallbacks) :
          DoGet(key, fallback)
    \/ \E key \in GetKeys, fallback \in SeqsUpTo({MkInt(TRUE, <<"7">>)}, MaxFallbacks) :
          DoGetAs("GetInt", key, fallback)
    \/ \E key \in GetKeys, fallback \in SeqsUpTo({MkInt(FALSE, <<"7">>)}, MaxFallbacks) :
          DoGetAs("GetUint", key, fallback)
    \/ \E key \in GetKeys, fallback \in SeqsUpTo({MkFloat(FALSE, <<"7">>, <<"5">>)}, MaxFallbacks) :
          DoGetAs("GetFloat", key, fallback)
    \/ \E key \in GetKeys, fallback \in SeqsUpTo({MkInt(FALSE, <<"7">>)}, MaxFallbacks) :
          DoGetAs("GetDuration", key, fallback)
    \/ \E key \in GetKeys, fallback \in SeqsUpTo({TRUE}, MaxFallbacks) :
          DoGetAs("GetBool", key, fallback)

SpecGet == InitGet /\ [][NextGet]_vars

----------------------------------------------------------------------------
(* Properties.  A state after Dump records the argument and the result in  *)
(* dumped; a state after Bind records the source, the struct before the    *)
(* call and the error in bound, and holds the struct after the call in     *)
(* val.                                                                    *)

DumpDone == op \in {"Dump", "BindDumped"}
BindDone == op \in {"Bind", "Rebind", "BindDumped"}

\* the dumper of the recorded Dump
TheDumper == [noZero |-> dumped.noZero, nameFunc |-> dumped.nameFunc]

\* the key Dump writes a field under
DumpKey(d, field) ==
    IF field.tag = <<>> THEN nameFunc(d, field.name) ELSE field.tag

\* the cases whose only field is a supported scalar
ScalarCases == 1..17

\* a value that is not zero, and does not point to a zero value either
NonZeroDeep(t, v) ==
    ~isZero(t, v) /\ (t.k = "ptr" => ~isZero(Elem(t), Deref(v)))

\* C1: for a struct whose only exported field is a supported scalar with a
\* non-zero value, binding a zero-valued target to what Dump returned for
\* it succeeds and leaves the target equal to the original.
C1_RoundTrip ==
    (/\ op = "BindDumped"
     /\ tid \in ScalarCases
     /\ ~dumped.noZero /\ dumped.nameFunc = "VarName"
     /\ NonZeroDeep(CaseType(tid).fields[1].type, dumped.src[1]))
    => (bound.err = Nil /\ val = dumped.src)

LettersOnly(s) == \A i \in DOMAIN s : s[i] \in Lower \cup Upper

\* whether a '_' belongs before s[i]: s[i] is an upper-case letter after a
\* lower-case one, or the last of three or more upper-case letters with a
\* lower-case letter after it
IsBoundary(s, i) ==
    /\ i > 1
    /\ s[i] \in Upper
    /\ \/ s[i - 1] \in Lower
       \/ /\ i >= 3 /\ s[i - 1] \in Upper /\ s[i - 2] \in Upper
          /\ i < Len(s) /\ s[i + 1] \in Lower

\* s in upper case with a '_' at each boundary from position i on
RECURSIVE SplitAtBoundaries(_, _)
SplitAtBoundaries(s, i) ==
    IF i > Len(s) THEN <<>>
    ELSE (IF IsBoundary(s, i) THEN <<"_">> ELSE <<>>)
           \o <<ToUpperChar(s[i])>> \o SplitAtBoundaries(s, i + 1)

\* C2: for a camel-case identifier of letters only, VarName returns the
\* identifier in upper case with one '_' at every lower-to-upper transition
\* and every acronym boundary, and nowhere else.
C2_SplitsAtBoundaries ==
    (op = "VarName" /\ LettersOnly(name) /\ isCamelCase(name))
    => out = SplitAtBoundaries(name, 1)

\* a source without its entries that hold the empty string
DropEmpty(env) == [k \in {x \in DOMAIN env : env[x] # <<>>} |-> env[k]]

\* every field of struct a (of type t, b before the call) that is not a
\* struct and whose key the source leaves unset or empty is as in b; the
\* fields of nested structs included, unless the nested struct is a url.URL
\* that the source sets as a whole
RECURSIVE KeptWhereUnset(_, _, _, _)
KeptWhereUnset(t, b, a, env) ==
    \A i \in DOMAIN t.fields :
        LET f     == t.fields[i]
            isSet == Lookup(env, getFieldKey(f)) # <<>>
        IN IF f.type.k = "struct"
           THEN (isSet /\ f.type = TURL) \/ KeptWhereUnset(f.type, b[i], a[i], env)
           ELSE IF f.type.k = "ptr" /\ Elem(f.type).k = "struct" /\ b[i] # NilPtr
           THEN /\ a[i] # NilPtr
                /\ KeptWhereUnset(Elem(f.type), Deref(b[i]), Deref(a[i]), env)
           ELSE isSet \/ a[i] = b[i]

\* C3: Bind leaves every non-struct field whose key is absent from the
\* source, or present with the empty string, at the value it had; and the
\* struct and the error are those of a Bind with the empty entries removed
\* from the source.
C3_UnsetOrEmpty ==
    op = "Bind" =>
        /\ KeptWhereUnset(CaseType(tid), bound.before, val, bound.env)
        /\ Bind(PtrTo(CaseType(tid)), Ref(bound.before), DropEmpty(bound.env))
             = Set(Ref(val), bound.err)

\* C3's case: struct { A int8; B string } holding 1 and "x", bound to a
\* source with A present and empty and B absent, is unchanged
C3_Witness ==
    /\ op = "Bind" /\ tid = 18
    /\ DOMAIN bound.env = {<<"A">>} /\ bound.env[<<"A">>] = <<>>
    /\ bound.before = <<MkInt(FALSE, <<"1">>), <<"x">>>>
    /\ val = bound.before /\ bound.err = Nil

\* C4: Bind leaves every field that is unexported or tagged "-" as it was,
\* with everything reachable through it, whatever the source holds.
C4_SkippedUntouched ==
    BindDone =>
        \A i \in DOMAIN CaseType(tid).fields :
            (~CanSet(CaseType(tid).fields[i]) \/ CaseType(tid).fields[i].tag = <<"-">>)
                => val[i] = bound.before[i]

\* Dump wrote every tagged field it converted under its tag and not under
\* the name derived from its identifier, in struct v and the structs nested
\* in it
RECURSIVE TagsDumped(_, _, _, _)
TagsDumped(d, t, v, m) ==
    \A i \in DOMAIN t.fields :
        LET f == t.fields[i]
        IN IF DumpSkipsName(f.name) \/ f.tag = <<"-">> THEN TRUE
           ELSE IF d.noZero /\ isZero(f.type, v[i]) THEN TRUE
           ELSE IF f.type.k = "struct" THEN TagsDumped(d, f.type, v[i], m)
           ELSE IF f.type.k = "ptr" /\ Elem(f.type).k = "struct" /\ v[i] # NilPtr
           THEN TagsDumped(d, Elem(f.type), Deref(v[i]), m)
           ELSE f.tag # <<>> =>
                  /\ Has(m, f.tag) /\ m[f.tag] = toString(f.type, v[i]).s
                  /\ ~Has(m, nameFunc(d, f.name))

\* Bind gave every tagged string field what the source holds under its tag,
\* in struct a (b before the call) and the structs its pointers lead to
RECURSIVE TagsBound(_, _, _, _)
TagsBound(t, b, a, env) ==
    \A i \in DOMAIN t.fields :
        LET f == t.fields[i]
        IN IF ~CanSet(f) \/ f.tag = <<"-">> THEN TRUE
           ELSE IF f.type.k = "ptr" /\ Elem(f.type).k = "struct" /\ b[i] # NilPtr
           THEN /\ a[i] # NilPtr
                /\ TagsBound(Elem(f.type), Deref(b[i]), Deref(a[i]), env)
           ELSE (f.tag # <<>> /\ f.type.k = "string") =>
                  a[i] = IF Lookup(env, f.tag) # <<>> THEN Lookup(env, f.tag)
                         ELSE b[i]

\* C5: a field tagged K is dumped under K and bound from K, never under or
\* from the name derived from its identifier, whichever name function Dump
\* is given and at every nesting level.
C5_TagOverride ==
    /\ (DumpDone /\ dumped.err = Nil)
          => TagsDumped(TheDumper, CaseType(tid), dumped.src, dumped.vars)
    /\ (BindDone /\ bound.err = Nil)
          => TagsBound(CaseType(tid), bound.before, val, bound.env)

\* C5's case: struct { A string `env:"K"`; B string } with A = "x", dumped
\* with the name function of TestVarNameFunc, has "x" under K and nothing
\* under "a"; a zero target bound to the result has A = "x"
C5_Witness ==
    /\ op = "BindDumped" /\ tid = 19
    /\ dumped.nameFunc = "LowerDash" /\ dumped.src[1] = <<"x">>
    /\ dumped.vars[<<"K">>] = <<"x">> /\ ~Has(dumped.vars, <<"a">>)
    /\ bound.env = dumped.vars /\ val[1] = <<"x">>

\* C6: Bind returns ErrNotStructPtr for every argument that is not a
\* pointer to a struct, and never for a pointer to a struct.
C6_NotStructPtr ==
    /\ op = "BindInvalid" => bound.err = ErrNotStructPtr
    /\ BindDone => bound.err # ErrNotStructPtr

\* the cases with a field of an unconvertible type, and that field's name
UnsupportedCases == 28..31
UnsupportedName(i) == IF i = 31 THEN <<"S","l","i","c","e">> ELSE <<"M","a","p">>

\* C7: for a struct with a map field or a slice-of-maps field (at top
\* level, behind a non-nil pointer, or embedded), Bind to a source that sets
\* that field's key fails with ErrUnsupported naming the map type, and Dump
\* succeeds with no entry for the field.
C7_Asymmetry ==
    /\ (/\ op = "Bind" /\ tid \in UnsupportedCases
        /\ DOMAIN bound.env = {VarName(UnsupportedName(tid))}
        /\ bound.env[VarName(UnsupportedName(tid))] # <<>>
        /\ (tid = 29 => bound.before[1] # NilPtr))
          => bound.err = ErrUnsupported(TMap.str)
    /\ (op = "Dump" /\ tid \in UnsupportedCases)
          => /\ dumped.err = Nil
             /\ ~Has(dumped.vars, nameFunc(TheDumper, UnsupportedName(tid)))

\* the keys of the exported, non-skipped fields of struct v that hold a
\* non-zero value, nested structs and non-nil struct pointers followed
RECURSIVE NonZeroKeys(_, _, _)
NonZeroKeys(d, t, v) ==
    UNION { LET f == t.fields[i]
            IN IF DumpSkipsName(f.name) \/ f.tag = <<"-">> \/ isZero(f.type, v[i])
               THEN {}
               ELSE IF Indirect(f.type).k = "struct"
               THEN NonZeroKeys(d, Indirect(f.type), IndirectV(f.type, v[i]))
               ELSE {DumpKey(d, f)}
          : i \in DOMAIN t.fields }

\* the cases whose fields are strings, integers, slices of those and
\* structs of those: every field is convertible
ZeroCases == {18, 32, 33, 34, 37}

\* C8: with IgnoreZeroValues, the keys of Dump's result are exactly those
\* of the convertible fields that hold a non-zero value.
C8_ZeroOmission ==
    (DumpDone /\ dumped.noZero /\ tid \in ZeroCases)
    => (dumped.err = Nil
        /\ DOMAIN dumped.vars = NonZeroKeys(TheDumper, CaseType(tid), dumped.src))

\* C9: a field holding a non-nil empty slice has the empty string under its
\* key in Dump's result, with or without IgnoreZeroValues.
C9_EmptySliceKept ==
    (DumpDone /\ dumped.err = Nil) =>
        \A i \in DOMAIN CaseType(tid).fields :
            (CaseType(tid).fields[i].type.k = "slice" /\ dumped.src[i] = SliceV(<<>>))
                => /\ Has(dumped.vars, DumpKey(TheDumper, CaseType(tid).fields[i]))
                   /\ dumped.vars[DumpKey(TheDumper, CaseType(tid).fields[i])] = <<>>

\* the <<key, text>> pairs of the fields Dump converts, fields i.. of struct
\* v in declaration order, each nested struct's pairs in place of the field
\* that holds it
RECURSIVE LeavesFrom(_, _, _, _)
LeavesFrom(d, t, v, i) ==
    IF i > Len(t.fields) THEN <<>>
    ELSE LET f == t.fields[i]
             here ==
               IF DumpSkipsName(f.name) \/ f.tag = <<"-">>
                  \/ (d.noZero /\ isZero(f.type, v[i]))
               THEN <<>>
               ELSE IF f.type.k = "ptr" /\ v[i] = NilPtr
               THEN << <<DumpKey(d, f), <<>>>> >>
               ELSE IF Indirect(f.type).k = "struct"
               THEN LeavesFrom(d, Indirect(f.type), IndirectV(f.type, v[i]), 1)
               ELSE << <<DumpKey(d, f), toString(f.type, v[i]).s>> >>
         IN here \o LeavesFrom(d, t, v, i + 1)

\* the map of a sequence of <<key, text>> pairs, the last pair of a key
\* giving its text
LastWins(pairs) ==
    [k \in {pairs[i][1] : i \in DOMAIN pairs} |->
        pairs[CHOOSE i \in DOMAIN pairs :
                /\ pairs[i][1] = k
                /\ \A j \in DOMAIN pairs : pairs[j][1] = k => j <= i][2]]

\* the cases with nested structs: a parent field before or after a nested
\* struct with a field of the same key, two nested structs, an embedded one
MergeCases == {33, 34, 35, 36, 38}

\* C10: Dump puts the fields of nested structs into the one map it returns,
\* under their own keys, and a key that several fields have holds the text
\* of the one visited last, depth first in declaration order.
C10_NestedMerge ==
    (DumpDone /\ tid \in MergeCases)
    => (dumped.err = Nil
        /\ dumped.vars = LastWins(LeavesFrom(TheDumper, CaseType(tid), dumped.src, 1)))

\* C10's case: struct { A string; N Nested } with A = "x" and N.A = "y" has
\* "y" under A, the nested field being visited after the parent's
C10_Witness ==
    /\ op = "Dump" /\ tid = 34
    /\ dumped.src[1] = <<"x">> /\ dumped.src[2][1] = <<"y">>
    /\ dumped.vars[<<"A">>] = <<"y">>

\* the cases with a slice of a convertible element type, and which field
\* the slice is
SliceCases == {32, 37, 39}
SliceIndex(i) == IF i = 32 THEN 3 ELSE 1
SliceField(i) == CaseType(i).fields[SliceIndex(i)]

\* the text of one element e of a slice of type t
ElemText(t, e) ==
    CASE Indirect(Elem(t)).k = "string"    -> IndirectV(Elem(t), e)
      [] Indirect(Elem(t)).k \in IntKinds  -> FormatInt(IndirectV(Elem(t), e))
      [] Indirect(Elem(t)).k \in UintKinds -> FormatUint(IndirectV(Elem(t), e))

\* the number of commas in s
Commas(s) == Cardinality({i \in DOMAIN s : s[i] = ","})

\* the slice of type t that Bind is to make of text s: one element for each
\* comma-separated part, behind a new pointer when the elements are pointers
SliceOfParts(t, s) ==
    SliceV([j \in 1..(Commas(s) + 1) |->
              IF Elem(t).k = "ptr"
              THEN Ref(kindParsers(Indirect(Elem(t)).k, Split(s, ",")[j]).v)
              ELSE kindParsers(Elem(t).k, Split(s, ",")[j]).v])

BindDescends(field, fv, env) ==
    /\ CanSet(field)
    /\ \/ field.type.k = "ptr" /\ fv # NilPtr /\ Elem(field.type).k = "struct"
       \/ field.type.k = "struct" /\ field.type.tname = ""
       \/ /\ field.type.k = "struct"
          /\ getFieldKey(field) # <<"-">>
          /\ Lookup(env, getFieldKey(field)) = <<>>

\* struct a (of type t, b before the call) is what a traversal that stopped
\* at some field f leaves: the fields before f are as a Bind without error
\* leaves them, the fields after f are as before the call, and f, where
\* Bind goes into it, is itself left by a traversal that stopped
RECURSIVE StoppedAt(_, _, _, _)
StoppedAt(t, b, a, env) ==
    \E f \in DOMAIN t.fields :
        /\ \A i \in 1..(f - 1) : populateField(t.fields[i], b[i], env) = Set(a[i], Nil)
        /\ \A i \in (f + 1)..Len(t.fields) : a[i] = b[i]
        /\ BindDescends(t.fields[f], b[f], env)
             => StoppedAt(Indirect(t.fields[f].type),
                          IndirectV(t.fields[f].type, b[f]),
                          IndirectV(t.fields[f].type, a[f]), env)

\* C12: when Bind fails at a field, every field before it in the
\* depth-first traversal has its new value and every field after it has
\* the value it had before the call.
C12_StopsAtFailure ==
    (op = "Bind" /\ bound.err # Nil)
    => StoppedAt(CaseType(tid), bound.before, val, bound.env)

\* C12's case: struct { A string; B int8; C string } holding "x", 0, "y",
\* bound to A="z", B="z", C="z": B fails to parse, A is "z" and C is "y"
C12_Witness ==
    /\ op = "Bind" /\ tid = 40 /\ bound.err # Nil
    /\ bound.before = << <<"x">>, IntZero, <<"y">> >>
    /\ bound.env = [k \in {<<"A">>, <<"B">>, <<"C">>} |-> <<"z">>]
    /\ val = << <<"z">>, IntZero, <<"y">> >>

\* C13: Dump returns ErrNotStruct and no map for every argument that is
\* neither a struct nor a non-nil pointer to one; for a struct it never
\* returns ErrNotStruct, whatever its fields hold, and it returns for the
\* struct and for a pointer to it the same map and error.
C13_NotStruct ==
    /\ op = "DumpInvalid" => (dumped.err = ErrNotStruct /\ dumped.vars = EmptyMap)
    /\ op = "Dump" =>
         /\ dumped.err # ErrNotStruct
         /\ [vars |-> dumped.vars, err |-> dumped.err]
              = IF dumped.byPtr
                THEN Dump(CaseType(tid), dumped.src, dumped.noZero, dumped.nameFunc)
                ELSE Dump(PtrTo(CaseType(tid)), Ref(dumped.src),
                          dumped.noZero, dumped.nameFunc)

\* C13's case: Dump(&v) for v of struct { P *int8 } with P pointing to 1
\* returns P="1" and no error
C13_Witness ==
    /\ op = "Dump" /\ tid = 27 /\ dumped.byPtr
    /\ dumped.src = << Ref(MkInt(FALSE, <<"1">>)) >>
    /\ dumped.err = Nil /\ dumped.vars = [k \in {<<"P">>} |-> <<"1">>]

\* a type Dump has no text for and does not go into: a map, or a slice of
\* maps
Unconvertible(t) == t.k = "map" \/ (t.k = "slice" /\ Elem(t).k = "map")

\* map m has no entry for the exported, non-skipped fields of an
\* unconvertible type of struct v, nested structs and non-nil struct
\* pointers followed
RECURSIVE OmitsLeaves(_, _, _, _)
OmitsLeaves(d, t, v, m) ==
    \A i \in DOMAIN t.fields :
        LET f == t.fields[i]
        IN IF DumpSkipsName(f.name) \/ f.tag = <<"-">> THEN TRUE
           ELSE IF Unconvertible(f.type) THEN ~Has(m, DumpKey(d, f))
           ELSE IF f.type.k = "struct" /\ f.type # TTime
           THEN OmitsLeaves(d, f.type, v[i], m)
           ELSE IF f.type.k = "ptr" /\ v[i] # NilPtr
                   /\ Elem(f.type).k = "struct" /\ Elem(f.type) \notin {TTime, TURL, TUserinfo}
           THEN OmitsLeaves(d, Elem(f.type), Deref(v[i]), m)
           ELSE TRUE

\* the cases with a badMarshaller, whose MarshalText fails
BadMarshalCases == 41..43

\* C14: the result of Dump has no entry for an exported field that is
\* neither convertible nor a struct, and Dump of a struct fails only with
\* the error of a text marshaller.
C14_LenientLeaves ==
    /\ (op = "Dump" /\ dumped.err = Nil)
          => OmitsLeaves(TheDumper, CaseType(tid), dumped.src, dumped.vars)
    /\ (op = "Dump" /\ dumped.err # Nil)
          => (dumped.err = ErrOops /\ tid \in BadMarshalCases)

\* the cases whose field V is of an integer kind
IntegerCases == 3..12

\* a floating-point number truncated toward zero
Truncated(x) == MkInt(x.neg /\ x.ip # <<"0">>, x.ip)

\* text s fails the strict integer parse of kind k but is a floating-point
\* number whose integer part fits every width of k's signedness
FloatOnly(k, s) ==
    /\ ~kindParsers(k, s).ok
    /\ ParseFloat(s).ok
    /\ IF k \in IntKinds THEN FitsInt(Truncated(ParseFloat(s).v), 8)
       ELSE FitsUint(Truncated(ParseFloat(s).v), 8)

\* C15: Bind accepts, for a field of any integer kind, a text that is no
\* integer but a floating-point number, and sets the field to the number
\* truncated toward zero ("3.5" gives 3).
C15_FloatFallback ==
    (/\ op = "Bind" /\ tid \in IntegerCases
     /\ Has(bound.env, <<"V">>)
     /\ FloatOnly(CaseType(tid).fields[1].type.k, Lookup(bound.env, <<"V">>)))
    => (bound.err = Nil /\ val[1] = Truncated(ParseFloat(bound.env[<<"V">>]).v))

\* C16: Dump and Bind end with a result or an error whatever the structs
\* and non-nil pointers they are given: no call runs out of stack.
C16_Terminates == op # "overflow"

\* every string field of struct a (of type t, b before the call) whose key
\* the source sets holds the source's value, in a and in the structs nested
\* in it by value or behind a non-nil pointer
RECURSIVE AppliedDeep(_, _, _, _)
AppliedDeep(t, b, a, env) ==
    \A i \in DOMAIN t.fields :
        LET f == t.fields[i]
        IN IF ~CanSet(f) \/ f.tag = <<"-">> THEN TRUE
           ELSE IF f.type.k = "struct" THEN AppliedDeep(f.type, b[i], a[i], env)
           ELSE IF f.type.k = "ptr" /\ Elem(f.type).k = "struct" /\ b[i] # NilPtr
           THEN a[i] # NilPtr /\ AppliedDeep(Elem(f.type), Deref(b[i]), Deref(a[i]), env)
           ELSE (f.type.k = "string" /\ Lookup(env, getFieldKey(f)) # <<>>)
                   => a[i] = Lookup(env, getFieldKey(f))

\* the cases with a struct without a conversion nested in them, by value,
\* embedded or behind a pointer
NestedCases == {20, 25, 29, 30, 33, 34, 35, 36, 38}

\* C17: Bind returns ErrUnsupported only for a field that is neither
\* convertible nor a struct (the map of the cases), whatever the source
\* holds, the key of a struct field included; and a Bind that succeeds has
\* applied the keys of the nested structs' fields.
C17_StructsRecursed ==
    /\ (op = "Bind" /\ tid \in NestedCases /\ bound.err.kind = "ErrUnsupported")
          => bound.err = ErrUnsupported(TMap.str)
    /\ (op = "Bind" /\ tid \in NestedCases /\ bound.err = Nil)
          => AppliedDeep(CaseType(tid), bound.before, val, bound.env)

LettersAndDigits(s) == \A i \in DOMAIN s : s[i] \in Lower \cup Upper \cup Digit

\* o without its '_'
Unsplit(o) == SelectSeq(o, LAMBDA c : c # "_")

\* how many '_' o holds before position p
RECURSIVE SeparatorsBefore(_, _)
SeparatorsBefore(o, p) ==
    IF p <= 1 THEN 0
    ELSE SeparatorsBefore(o, p - 1) + (IF o[p - 1] = "_" THEN 1 ELSE 0)

\* the positions of the identifier before which o holds a '_', for an o
\* that is an identifier without '_' in upper case with '_' inserted
SplitPoints(o) == {p - SeparatorsBefore(o, p) : p \in {q \in DOMAIN o : o[q] = "_"}}

\* the upper-case run ending at s[i - 1], s[i] has three or more letters and
\* a lower-case letter follows s[i]
EndsAcronym(s, i) ==
    /\ i >= 3 /\ s[i] \in Upper /\ s[i - 1] \in Upper /\ s[i - 2] \in Upper
    /\ i < Len(s) /\ s[i + 1] \in Lower

\* C18: VarName puts a '_' inside a run of upper-case letters only before
\* the last letter of a run of three or more that a lower-case letter
\* follows; a run of one or two upper-case letters stays in one word.
C18_AcronymRuns ==
    (op = "VarName" /\ LettersAndDigits(name))
    => /\ Unsplit(out) = ToUpper(name)
       /\ \A i \in SplitPoints(out) :
             (i > 1 /\ i <= Len(name) /\ name[i - 1] \in Upper) => EndsAcronym(name, i)

\* s[i] is an upper-case letter that follows a lower-case one, with nothing
\* but digits in between
AfterLower(s, i) ==
    /\ s[i] \in Upper
    /\ \E j \in 1..(i - 1) :
          s[j] \in Lower /\ \A k \in (j + 1)..(i - 1) : s[k] \in Digit

\* s holds three or more upper-case letters in a row, then digits or none,
\* then a lower-case letter
HasAcronymRun(s) ==
    \E i \in DOMAIN s, j \in DOMAIN s :
        /\ i + 2 < j /\ s[j] \in Lower
        /\ \E u \in (i + 2)..(j - 1) :
              /\ \A k \in i..u : s[k] \in Upper
              /\ \A k \in (u + 1)..(j - 1) : s[k] \in Digit

\* C19: in the name of an identifier of letters and digits every '_' stands
\* before a character that was an upper-case letter of the identifier,
\* never before a digit; and an identifier without a lower-to-upper
\* transition and without an acronym run gets no '_' at all.
C19_DigitsInsideWords ==
    (op = "VarName" /\ LettersAndDigits(name))
    => /\ Unsplit(out) = ToUpper(name)
       /\ out # <<>> => out[Len(out)] # "_"
       /\ \A i \in SplitPoints(out) : i <= Len(name) /\ name[i] \in Upper
       /\ ((~ \E i \in DOMAIN name : AfterLower(name, i)) /\ ~HasAcronymRun(name))
             => out = ToUpper(name)

\* b2B has become B2_B
C19_Witness ==
    /\ op = "VarName"
    /\ name = <<"b", "2", "B">>
    /\ out = <<"B", "2", "_", "B">>

\* C20: Get returns the value of the key whenever the source holds the
\* key, the empty string included, whatever the fallback; and when the
\* source does not hold the key it returns the first fallback argument, or
\* "" without one.
C20_GetFallback ==
    (op = "Get")
    => /\ Has(got.env, got.key) => got.value = got.env[got.key]
       /\ ~Has(got.env, got.key)
             => got.value = (IF got.fallback = <<>> THEN <<>> ELSE got.fallback[1])

\* a Get of a key set to "" with a non-empty fallback has returned ""
C20_Witness ==
    /\ op = "Get"
    /\ Has(got.env, got.key) /\ got.env[got.key] = <<>>
    /\ got.fallback # <<>> /\ got.fallback[1] # <<>>
    /\ got.value = <<>>

\* what a typed getter returns without a parsed value: the first fallback
\* argument, or the zero value of the getter's type
FallbackOr(zero) == IF got.fallback = <<>> THEN zero ELSE got.fallback[1]

\* the text of the variable a getter has read
GotText == got.env[got.key]

\* C21: a typed getter returns the parsed value when the variable is set
\* and parses, and the first fallback, or the type's zero value, when the
\* variable is unset, empty or does not parse; GetInt and GetUint take a
\* number with a fraction and drop the fraction, and GetUint takes no
\* negative number.
C21_TypedGetters ==
    /\ (op \in {"GetInt", "GetUint", "GetFloat", "GetDuration", "GetBool"}
          /\ (~Has(got.env, got.key) \/ GotText = <<>>))
          => got.value = FallbackOr(CASE op = "GetFloat" -> FloatZero
                                      [] op = "GetBool"  -> FALSE
                                      [] OTHER           -> IntZero)
    /\ (op = "GetInt" /\ Has(got.env, got.key))
          => got.value = (IF ParseInt(GotText, 64).ok THEN ParseInt(GotText, 64).v
                          ELSE IF ParseFloat(GotText).ok THEN Truncated(ParseFloat(GotText).v)
                          ELSE FallbackOr(IntZero))
    /\ (op = "GetUint" /\ Has(got.env, got.key))
          => got.value = (IF ParseUint(GotText, 64).ok THEN ParseUint(GotText, 64).v
                          ELSE IF ParseFloat(GotText).ok /\ GotText[1] # "-"
                          THEN Truncated(ParseFloat(GotText).v)
                          ELSE FallbackOr(IntZero))
    /\ (op = "GetFloat" /\ Has(got.env, got.key))
          => got.value = (IF ParseFloat(GotText).ok THEN ParseFloat(GotText).v
                          ELSE FallbackOr(FloatZero))
    /\ (op = "GetDuration" /\ Has(got.env, got.key))
          => got.value = (IF ParseDuration(GotText).ok THEN ParseDuration(GotText).v
                          ELSE FallbackOr(IntZero))
    /\ (op = "GetBool" /\ Has(got.env, got.key))
          => got.value = (IF ParseBool(GotText).ok THEN ParseBool(GotText).v
                          ELSE FallbackOr(FALSE))

\* GetUint of a variable holding -5 has returned its fallback, 7
C21_Witness ==
    /\ op = "GetUint"
    /\ Has(got.env, got.key) /\ GotText = <<"-", "5">>
    /\ got.fallback = <<MkInt(FALSE, <<"7">>)>>
    /\ got.value = MkInt(FALSE, <<"7">>)

C22_WitnessFailed ==
    /\ op = "Export"
    /\ dumped.err # Nil
    /\ environ = Environ0

\* the cases of one field V whose type has a conversion of its own: a
\* time.Duration, a url.URL, a *url.URL, a *time.Time
TypedCases == {15, 16, 17, 44}

\* the conversion registered for type t itself, applied to text s
OwnConversion(t, s) ==
    CASE Indirect(t) = TDuration -> ParseDuration(s)
      [] Indirect(t) = TURL      -> URLParse(s)
      [] Indirect(t) = TTime     -> TimeUnmarshalText(s)

\* C23: for a field whose type has a registered conversion of its own,
\* Bind uses that conversion only: a text it rejects makes Bind fail, also
\* when the parser of the type's kind would take it ("90" for a duration),
\* and a text it accepts gives the field the converted value.
C23_OwnConversionOnly ==
    (op = "Bind" /\ tid \in TypedCases /\ Lookup(bound.env, <<"V">>) # <<>>)
    => LET converted(r) ==
             IF r.ok THEN bound.err = Nil /\ IndirectV(CaseType(tid).fields[1].type, val[1]) = r.v
             ELSE bound.err # Nil
       IN converted(OwnConversion(CaseType(tid).fields[1].type, Lookup(bound.env, <<"V">>)))

\* C24: a Dump without IgnoreZeroValues holds, for every exported field
\* that is a nil pointer and is not tagged "-", the field's key with the
\* empty string; a Dump with IgnoreZeroValues holds no key for it.
C24_NilPointerKey ==
    (op = "Dump" /\ dumped.err = Nil)
    => \A i \in DOMAIN CaseType(tid).fields :
          LET f == CaseType(tid).fields[i]
          IN (/\ f.type.k = "ptr" /\ dumped.src[i] = NilPtr
              /\ f.name[1] \in Upper /\ f.tag # <<"-">>)
             => IF dumped.noZero THEN ~Has(dumped.vars, DumpKey(TheDumper, f))
                ELSE /\ Has(dumped.vars, DumpKey(TheDumper, f))
                     /\ dumped.vars[DumpKey(TheDumper, f)] = <<>>

\* a Dump of struct { I int8; N *Nested } with N nil holds N = ""
C24_Witness ==
    /\ op = "Dump" /\ dumped.err = Nil /\ ~dumped.noZero
    /\ CaseType(tid).fields[Len(CaseType(tid).fields)].type = PtrTo(TNested)
    /\ dumped.src[Len(dumped.src)] = NilPtr
    /\ Has(dumped.vars, <<"N">>) /\ dumped.vars[<<"N">>] = <<>>
    /\ Has(dumped.vars, <<"I">>)

\* C25: a Bind that follows a Bind which returned nil, on the same struct
\* with the same source, returns nil and leaves the struct as the first
\* call left it.
C25_BindIdempotent ==
    [][(op = "Bind" /\ bound.err = Nil /\ op' = "Rebind")
          => (bound'.err = Nil /\ val' = val)]_vars

\* C26: no Bind on a pointer to a struct ends in a run-time panic, whatever
\* the source: it returns nil or an error.
C26_BindNeverPanics ==
    (op \in {"Bind", "Rebind", "BindDumped"}) => bound.err.kind # "panic"

\* the field at which Bind stopped, when Bind stopped because setField
\* failed on a field of the struct itself: the first field of struct type
\* t (b before the call) whose populating fails, if it is a field whose
\* value the source holds and that populate hands to setField; 0 otherwise
RECURSIVE FailingField(_, _, _, _)
FailingField(t, b, env, i) ==
    IF i > Len(t.fields) THEN 0
    ELSE IF populateField(t.fields[i], b[i], env).err = Nil
    THEN FailingField(t, b, env, i + 1)
    ELSE IF /\ CanSet(t.fields[i])
            /\ ~(t.fields[i].type.k = "ptr" /\ b[i] # NilPtr)
            /\ ~(t.fields[i].type.k = "struct" /\ t.fields[i].type.tname = "")
            /\ getFieldKey(t.fields[i]) # <<"-">>
            /\ Lookup(env, getFieldKey(t.fields[i])) # <<>>
    THEN i
    ELSE 0

\* C27: when Bind fails because a field's value does not parse or its type
\* is unsupported, that field holds what it held before the call: a scalar
\* its value, a slice its elements, a nil pointer nil.
C27_FailingFieldUntouched ==
    (op = "Bind" /\ bound.err # Nil /\ bound.err.kind # "panic"
       /\ FailingField(CaseType(tid), bound.before, bound.env, 1) # 0)
    => val[FailingField(CaseType(tid), bound.before, bound.env, 1)]
          = bound.before[FailingField(CaseType(tid), bound.before, bound.env, 1)]

\* whether Bind populates a field of type t from the one value under the
\* field's key: the type, or its element type, has a parser or is a text
\* unmarshaller
BindsFromOneValue(t) ==
    IF t.k = "slice"
    THEN ImplementsTextUnmarshaler(Elem(t)) \/ getParseFunc(Indirect(Elem(t))).ok
    ELSE ImplementsTextUnmarshaler(t) \/ getParseFunc(Indirect(t)).ok

\* C28: for a struct of one exported field that Bind populates from the
\* one value under the field's key, Dump with default options returns
\* exactly one entry, under that key: it does not go into the field.
C28_SameLeaves ==
    (/\ op = "Dump" /\ dumped.err = Nil
     /\ ~dumped.noZero /\ dumped.nameFunc = "VarName"
     /\ Len(CaseType(tid).fields) = 1
     /\ CanSet(CaseType(tid).fields[1]) /\ CaseType(tid).fields[1].tag # <<"-">>
     /\ BindsFromOneValue(CaseType(tid).fields[1].type))
    => DOMAIN dumped.vars = {getFieldKey(CaseType(tid).fields[1])}

\* C29: the name of a name is the name itself: VarName(VarName(s)) is
\* VarName(s), for the identifiers of letters, digits and '_'.
C29_VarNameIdempotent ==
    (op = "VarName") => (VarName(out) = out /\ ~isCamelCase(out))

\* myB has become MY_B
C29_Witness ==
    /\ op = "VarName"
    /\ name = <<"m", "y", "B">>
    /\ out = <<"M", "Y", "_", "B">>

\* C30: for an identifier without '_', VarName returns the identifier in
\* upper case with '_' inserted: taking the '_' out gives the upper-cased
\* identifier, no '_' is first, last or next to another, and wherever
\* either loop of splitCamelCase finds a match in what is left of the
\* identifier, it cuts after at least one character.
C30_OnlySeparators ==
    (op = "VarName" /\ LettersAndDigits(name))
    => /\ SelectSeq(out, LAMBDA c : c # "_") = ToUpper(name)
       /\ \A p \in DOMAIN out :
             out[p] = "_" => (p > 1 /\ p < Len(out) /\ out[p + 1] # "_")
       /\ \A k \in DOMAIN name :
             /\ FindStringSubmatchIndex(ReSplitCaps, Tail2(name, k)).ok
                   => FindStringSubmatchIndex(ReSplitCaps, Tail2(name, k)).cap >= 2
             /\ FindStringSubmatchIndex(ReSplitLower, Tail2(name, k)).ok
                   => FindStringSubmatchIndex(ReSplitLower, Tail2(name, k)).cap >= 2

\* newHomeAddress has become NEW_HOME_ADDRESS
C30_Witness ==
    /\ op = "VarName"
    /\ name = <<"n","e","w","H","o","m","e","A","d","d","r","e","s","s">>
    /\ out = <<"N","E","W","_","H","O","M","E","_","A","D","D","R","E","S","S">>

====
